---- MODULE Spec2Model ----
(***************************************************************************)
(* Lyric synchronisation pipeline of pinyin-ktv: the timed-lyrics parser   *)
(* and active-line resolver of LyricsView, the seek coordinator of         *)
(* ResultsState and the playback position trackers of its variants.        *)
(*                                                                         *)
(* Times are integers in hundredths of a second (the code's seconds,       *)
(* scaled by 100), so 3.5 s is 350 and the 100 ms timer period is 10.      *)
(* Text is a sequence of characters, each character a one-token string;    *)
(* a payload is the sequence of lines that split('\n') gives.              *)
(***************************************************************************)
EXTENDS Integers, Sequences, FiniteSets, TLC

VARIABLES
  variant,          \* which screen is modelled: "lyrics", "app", "poll", "est", "fallback",
                    \* "convert", "players", "storage", "input", "click"
  currentState,     \* Router.currentState: "input" or "results"
  videoData,        \* Router.videoData (NoVideo while null)
  inputView,        \* InputState's instance and state: [inst, mounted, youtubeUrl,
                    \* songTitle, showSongInfo, isLoading, error]
  lookups,          \* extractYoutubeInfo calls in flight: [n, url, inst]
  lookupLog,        \* history: the URLs entered and the lookups returned, in order
  searchCache,      \* MemStorage.searchCache: normalized query -> [results, timestamp]
  lyricsCache,      \* MemStorage.lyricsCache: song id -> [lyrics, timestamp]
  putLog,           \* history: the cache* calls made so far, [cache, key, value, at]
  players,          \* the YouTubePlayer instances mounted so far, where several live side
                    \* by side: [previousCallback, mounted, player]
  lyricsDb,         \* the lyrics source: song id -> LyricsResponse record
  selectedSong,     \* ResultsState.selectedSong (0 = null)
  activeTab,        \* ResultsState.activeTab
  currentTime,      \* ResultsState.currentTime, the prop LyricsView receives
  mounts,           \* how many times the lyrics tab's components were mounted
  lvInst,           \* the mounted LyricsView instance (0 = none mounted)
  query,            \* useQuery's state in the mounted LyricsView: "loading", "success", "error"
  data,             \* useQuery's data in the mounted LyricsView (NoData while undefined)
  syncedLyrics,     \* LyricsView.syncedLyrics, the installed line sequence
  currentLineIndex, \* LyricsView.currentLineIndex
  parses,           \* processLyrics calls in flight: [inst, song, data, parsed]
  seekToRef,        \* ResultsState.seekToRef.current: "null", or the seekTo closure registered,
                    \* named by the playerReady it closed over: "notReady", "ready"
  ytApi,            \* window.YT: "none", "loading" or "ready"
  apiCallback,      \* window.onYouTubeIframeAPIReady: 0 = undefined, else the instance
                    \* whose callback is registered
  playerRef,        \* playerRef.current: 0 = null, else the YT.Player object
  playerReady,      \* the player object has signalled onReady
  intervalRef,      \* timeUpdateIntervalRef / intervalRef .current: 0 = null, else a timer id
  intervals,        \* the window's live setInterval timers: [id], with what the
                    \* callback closed over
  timeouts,         \* the window's pending setTimeout timers: [kind, due, time, closure]
  nextTimer,        \* the id the window hands to the next timer, interval or timeout
  now,              \* Date.now(), in hundredths of a second
  playerState,      \* the state the embedded player signalled last: "none" before
                    \* onReady, "ready", or the state of its last onStateChange
  listeners,        \* the click listeners on #player-container, each named by the
                    \* currentTime of the render whose effect installed it
  lastOp            \* the handler that ran last, with what it did

lyricsViewVars == <<mounts, lvInst, query, data, syncedLyrics, currentLineIndex, parses>>
resultsVars == <<selectedSong, activeTab, currentTime, seekToRef>>
playerVars == <<ytApi, apiCallback, playerRef, playerReady>>
timerVars == <<intervalRef, intervals, timeouts, nextTimer, now>>
cacheVars == <<searchCache, lyricsCache, putLog>>
inputVars == <<currentState, videoData, inputView, lookups, lookupLog>>
vars == <<variant, inputVars, cacheVars, players, lyricsDb, resultsVars, lyricsViewVars, playerVars, timerVars,
          playerState, listeners, lastOp>>

(***************************************************************************)
(* Bounds of the model.                                                    *)
(***************************************************************************)
MaxLines == 3
MaxMounts == 3
MaxTimers == 4

\* Router.videoData while it is null
NoVideo == [videoId |-> "", title |-> "", channel |-> "", searchQuery |-> ""]

\* no InputState is mounted
NoInputState ==
  [inst |-> 0, mounted |-> FALSE, youtubeUrl |-> "", songTitle |-> "",
   showSongInfo |-> FALSE, isLoading |-> FALSE, error |-> "null"]

(***************************************************************************)
(* Characters.                                                             *)
(***************************************************************************)
\* an absent (undefined or null) payload; split never gives zero lines
Null == <<>>

CodePoint(c) ==
  CASE c = " " -> 32
    [] c = "." -> 46
    [] c = "0" -> 48 [] c = "1" -> 49 [] c = "2" -> 50 [] c = "3" -> 51
    [] c = "4" -> 52 [] c = "5" -> 53 [] c = "6" -> 54 [] c = "7" -> 55
    [] c = "8" -> 56 [] c = "9" -> 57
    [] c = ":" -> 58
    [] c = "L" -> 76
    [] c = "[" -> 91
    [] c = "]" -> 93
    [] c = "a" -> 97
    [] c = "l" -> 108
    [] c = "U3042" -> 12354
    [] c = "U4F60" -> 20320
    [] c = "U597D" -> 22909

\* \d of the tag pattern
IsDigit(c) == CodePoint(c) \in 48..57

\* what parseInt gives on two digits
ParseInt2(a, b) == 10 * (CodePoint(a) - 48) + (CodePoint(b) - 48)

\* white space as String.prototype.trim sees it
IsSpace(c) == CodePoint(c) = 32

RECURSIVE TrimStart(_)
TrimStart(s) ==
  IF s # <<>> /\ IsSpace(Head(s)) THEN TrimStart(Tail(s)) ELSE s

RECURSIVE TrimEnd(_)
TrimEnd(s) ==
  IF s # <<>> /\ IsSpace(s[Len(s)]) THEN TrimEnd(SubSeq(s, 1, Len(s) - 1)) ELSE s

Trim(s) == TrimEnd(TrimStart(s))

\* /[\u4e00-\u9fff]/.test(text)
HasChinese(text) == \E i \in 1..Len(text) : CodePoint(text[i]) \in 19968..40959

(***************************************************************************)
(* Pronunciation converter.                                                *)
(***************************************************************************)
Syllable(c) ==
  CASE c = "U4F60" -> "ni3"
    [] c = "U597D" -> "hao3"
    [] OTHER -> c

IsHan(c) == CodePoint(c) \in 19968..40959

\* pinyin(text, {segment}) items: one per Han character, one per run of others;
\* result.map(item => item[0]).join(' ')
RECURSIVE PinyinJoin(_, _)
PinyinJoin(text, prevHan) ==
  IF text = <<>> THEN <<>>
  ELSE LET c == Head(text)
           sep == IF IsHan(c) \/ prevHan THEN <<" ">> ELSE <<>>
       IN sep \o <<Syllable(c)>> \o PinyinJoin(Tail(text), IsHan(c))

convertToPinyin(text) ==
  IF text = <<>> THEN <<>>
  ELSE <<Syllable(Head(text))>> \o PinyinJoin(Tail(text), IsHan(Head(text)))

(***************************************************************************)
(* Timed-lyrics parser: LyricsView.processLyrics.                          *)
(***************************************************************************)
Infinity == 100000000

\* a JavaScript string is truthy when it is present and not empty
Truthy(payload) == payload # Null /\ payload # << <<>> >>

\* line.match(/^\[(\d{2}):(\d{2})\.(\d{2})\]/)
timeMatch(line) ==
  /\ Len(line) >= 10
  /\ line[1] = "["
  /\ IsDigit(line[2]) /\ IsDigit(line[3])
  /\ line[4] = ":"
  /\ IsDigit(line[5]) /\ IsDigit(line[6])
  /\ line[7] = "."
  /\ IsDigit(line[8]) /\ IsDigit(line[9])
  /\ line[10] = "]"

\* minutes * 60 + seconds + hundredths / 100, in hundredths of a second
startTimeOf(line) ==
  (ParseInt2(line[2], line[3]) * 60 + ParseInt2(line[5], line[6])) * 100
    + ParseInt2(line[8], line[9])

\* line.replace(/^\[\d{2}:\d{2}\.\d{2}\]/, '').trim()
textOf(line) == Trim(SubSeq(line, 11, Len(line)))

\* split('\n').filter(line => line.trim())
NonBlank(payload) == SelectSeq(payload, LAMBDA line : Trim(line) # <<>>)

endTimeOf_unbounded(syncedLines, i) == Infinity

RECURSIVE endTimeOf_nextTagged(_, _)
endTimeOf_nextTagged(syncedLines, i) ==
  IF i >= Len(syncedLines) THEN Infinity
  ELSE IF timeMatch(syncedLines[i + 1]) THEN startTimeOf(syncedLines[i + 1])
  ELSE endTimeOf_nextTagged(syncedLines, i + 1)

endTimeOf_next2(syncedLines, i) ==
  IF i + 1 < Len(syncedLines) /\ timeMatch(syncedLines[i + 2])
  THEN startTimeOf(syncedLines[i + 2])
  ELSE Infinity

\* the end time of raw line i: the start of raw line i + 1 when that parses
endTimeOf(syncedLines, i) ==
  IF i < Len(syncedLines) /\ timeMatch(syncedLines[i + 1])
  THEN startTimeOf(syncedLines[i + 1])
  ELSE Infinity

LyricLine(text, startTime, endTime) ==
  [chinese |-> text,
   pinyin |-> IF HasChinese(text) THEN convertToPinyin(text) ELSE <<>>,
   startTime |-> startTime,
   endTime |-> endTime]

RECURSIVE ParseSyncedAbort(_, _)
ParseSyncedAbort(syncedLines, i) ==
  IF i > Len(syncedLines) \/ ~timeMatch(syncedLines[i]) THEN <<>>
  ELSE <<LyricLine(textOf(syncedLines[i]), startTimeOf(syncedLines[i]),
                   endTimeOf(syncedLines, i))>>
         \o ParseSyncedAbort(syncedLines, i + 1)

\* the for loop over syncedLines, from raw line i on
RECURSIVE ParseSynced(_, _)
ParseSynced(syncedLines, i) ==
  IF i > Len(syncedLines) THEN <<>>
  ELSE IF timeMatch(syncedLines[i])
       THEN <<LyricLine(textOf(syncedLines[i]), startTimeOf(syncedLines[i]),
                        endTimeOf(syncedLines, i))>>
              \o ParseSynced(syncedLines, i + 1)
       ELSE ParseSynced(syncedLines, i + 1)

ParsePlain_hanOnly(lines) ==
  LET kept == SelectSeq(lines, HasChinese)
  IN [k \in 1..Len(kept) |-> LyricLine(kept[k], (k - 1) * 300, k * 300)]

ParsePlain_fromOne(lines) ==
  [k \in 1..Len(lines) |->
     LyricLine(lines[k], k * 300, (k + 1) * 300)]

\* lines.map((line, index) => ...) with 3 seconds per line
ParsePlain(lines) ==
  [k \in 1..Len(lines) |->
     LyricLine(lines[k], (k - 1) * 300, k * 300)]

\* data while the query has delivered nothing
NoData == [syncedLyrics |-> Null, plainLyrics |-> Null, instrumental |-> FALSE]

processLyrics_plainWhenNoneParses(d) ==
  IF Truthy(d.syncedLyrics) /\ ParseSynced(NonBlank(d.syncedLyrics), 1) # <<>>
  THEN ParseSynced(NonBlank(d.syncedLyrics), 1)
  ELSE IF Truthy(d.plainLyrics) THEN ParsePlain(NonBlank(d.plainLyrics))
  ELSE <<>>

processLyrics(d) ==
  IF Truthy(d.syncedLyrics) THEN ParseSynced(NonBlank(d.syncedLyrics), 1)
  ELSE IF Truthy(d.plainLyrics) THEN ParsePlain(NonBlank(d.plainLyrics))
  ELSE <<>>

(***************************************************************************)
(* Active-line resolver: the effect on [currentTime, syncedLyrics,         *)
(* currentLineIndex].  Indices are the code's, from 0; -1 is none.         *)
(***************************************************************************)
RECURSIVE FindFrom(_, _, _)
FindFrom(lines, t, k) ==
  IF k > Len(lines) THEN -1
  ELSE IF t >= lines[k].startTime /\ t < lines[k].endTime THEN k - 1
  ELSE FindFrom(lines, t, k + 1)

findIndex_closed(lines, t) ==
  IF \E k \in 1..Len(lines) : t >= lines[k].startTime /\ t <= lines[k].endTime
  THEN (CHOOSE k \in 1..Len(lines) :
          /\ t >= lines[k].startTime /\ t <= lines[k].endTime
          /\ \A j \in 1..(k - 1) : ~(t >= lines[j].startTime /\ t <= lines[j].endTime)) - 1
  ELSE -1

\* syncedLyrics.findIndex(line => currentTime >= line.startTime && currentTime < line.endTime)
findIndex(lines, t) == FindFrom(lines, t, 1)

\* the index the effect leaves in currentLineIndex
Resolve_lineAfter(lines, t, index) ==
  IF Len(lines) = 0 THEN index
  ELSE LET newIndex == findIndex(lines, t)
       IN IF newIndex # -1 /\ newIndex + 1 # index THEN newIndex + 1 ELSE index

Resolve_keepActive(lines, t, index) ==
  IF Len(lines) = 0 \/ index # -1 THEN index ELSE findIndex(lines, t)

Resolve(lines, t, index) ==
  IF Len(lines) = 0 THEN index
  ELSE LET newIndex == findIndex(lines, t)
       IN IF newIndex # -1 /\ newIndex # index THEN newIndex ELSE index

ScrollTarget_everyMatch(lines, t, index) ==
  IF Len(lines) = 0 THEN -1 ELSE findIndex(lines, t)

\* the line the effect scrolls into view, -1 when it does not scroll
ScrollTarget(lines, t, index) ==
  IF Len(lines) = 0 THEN -1
  ELSE LET newIndex == findIndex(lines, t)
       IN IF newIndex # -1 /\ newIndex # index THEN newIndex ELSE -1

(***************************************************************************)
(* Inputs.  The payload lines exercise each way a line can meet the tag    *)
(* pattern: well formed (Han text, Latin text, text after a space), no     *)
(* tag, a three-digit fraction, white space only, empty.                   *)
(***************************************************************************)
Tag(m1, m2, s1, s2, h1, h2) == <<"[", m1, m2, ":", s1, s2, ".", h1, h2, "]">>

Line0100 == Tag("0", "0", "0", "1", "0", "0") \o <<"U4F60", "U597D">>
Line0350 == Tag("0", "0", "0", "3", "5", "0") \o <<"l", "a">>
Line6200 == Tag("0", "1", "0", "2", "0", "0") \o <<" ", "U4F60">>
LineNoTag == <<"l", "a", " ", "l", "a">>
LineMillis == <<"[", "0", "0", ":", "0", "5", ".", "0", "0", "0", "]", "U597D">>
LineSpaces == <<" ", " ">>
LineEmpty == <<>>

RawLines == {Line0100, Line0350, Line6200, LineNoTag, LineMillis, LineSpaces, LineEmpty}

SeqsUpTo(S, n) == UNION {[1..k -> S] : k \in 1..n}

PlainPayload == <<<<"l", "a">>, <<>>, <<"U4F60", "U597D">>, <<"U3042">>>>

Responses ==
  {[syncedLyrics |-> p, plainLyrics |-> q, instrumental |-> FALSE] :
     p \in SeqsUpTo(RawLines, MaxLines) \cup {Null},
     q \in {Null, PlainPayload}}
    \cup {[syncedLyrics |-> Null, plainLyrics |-> Null, instrumental |-> TRUE]}

\* the playback offsets a parent or a player reports
Times == {0, 50, 100, 200, 300, 350, 400, 600, 900, 6200}

(***************************************************************************)
(* LyricsView.                                                             *)
(***************************************************************************)
\* the query delivers data and the effect on [data] calls processLyrics.  LyricsView
\* alone follows the call await by await; the variants of the whole page take the
\* awaits, which touch only the call's local array, in one step with the fetch
FetchLyricsDone ==
  /\ variant \in {"lyrics", "click", "app", "fallback"}
  /\ lvInst # 0 /\ query = "loading"
  /\ query' = "success"
  /\ data' = lyricsDb[selectedSong]
  /\ parses' = parses \cup {[inst |-> lvInst, song |-> selectedSong, data |-> data',
                             parsed |-> IF variant = "lyrics" THEN 0
                                        ELSE Len(processLyrics(data'))]}
  /\ lastOp' = [op |-> "fetchLyricsDone"]
  /\ UNCHANGED <<variant, inputVars, cacheVars, players, playerState, listeners, lyricsDb, resultsVars, mounts, lvInst, syncedLyrics,
                 currentLineIndex, playerVars, timerVars>>

\* the local parsedLines of call p
parsedLines(p) == SubSeq(processLyrics(p.data), 1, p.parsed)

DuringParse_publish(p) == IF p.inst = lvInst THEN parsedLines(p) ELSE syncedLyrics

\* the displayed sequence while call p is between two of its awaits: the loop
\* pushes to the local array only
DuringParse(p) == syncedLyrics

\* processLyrics resumes after an await: the timed branch pushes one line, the
\* untimed branch receives all of Promise.all's lines
ParseStep(p) ==
  /\ variant = "lyrics"
  /\ p \in parses
  /\ p.parsed < Len(processLyrics(p.data))
  /\ parses' = (parses \ {p}) \cup
       {[p EXCEPT !.parsed = IF Truthy(p.data.syncedLyrics) THEN p.parsed + 1
                             ELSE Len(processLyrics(p.data))]}
  /\ syncedLyrics' = DuringParse([p EXCEPT !.parsed = p.parsed + 1])
  /\ lastOp' = [op |-> "parseStep", inst |-> p.inst, song |-> p.song]
  /\ UNCHANGED <<variant, inputVars, cacheVars, players, playerState, listeners, lyricsDb, resultsVars, mounts, lvInst, query, data,
                 currentLineIndex, playerVars, timerVars>>

\* the query function has thrown (network error, not found) and the query has
\* given up: error is set, data stays undefined
FetchLyricsFailed ==
  /\ variant \in {"lyrics", "click"}
  /\ lvInst # 0 /\ query = "loading"
  /\ query' = "error"
  /\ lastOp' = [op |-> "fetchLyricsFailed"]
  /\ UNCHANGED <<variant, inputVars, cacheVars, players, playerState, listeners, lyricsDb, resultsVars, mounts, lvInst,
                 data, syncedLyrics, currentLineIndex, parses, playerVars, timerVars>>

Render_emptyFirst ==
  IF selectedSong = 0 THEN "selectSong"
  ELSE IF query = "loading" THEN "loading"
  ELSE IF data = NoData
          \/ (~Truthy(data.plainLyrics) /\ ~Truthy(data.syncedLyrics) /\ ~data.instrumental)
       THEN "noLyrics"
  ELSE IF query = "error" THEN "error"
  ELSE IF data.instrumental THEN "instrumental"
  ELSE "lyrics"

\* which of its returns LyricsView's render takes
Render ==
  IF selectedSong = 0 THEN "selectSong"
  ELSE IF query = "loading" THEN "loading"
  ELSE IF query = "error" THEN "error"
  ELSE IF data = NoData
          \/ (~Truthy(data.plainLyrics) /\ ~Truthy(data.syncedLyrics) /\ ~data.instrumental)
       THEN "noLyrics"
  ELSE IF data.instrumental THEN "instrumental"
  ELSE "lyrics"

Installed_anyInstance(p) == processLyrics(p.data)

\* what setSyncedLyrics(parsedLines) of call p installs: React drops the
\* update of an instance that is no longer mounted
Installed(p) == IF p.inst = lvInst THEN processLyrics(p.data) ELSE syncedLyrics

\* processLyrics reaches setSyncedLyrics(parsedLines); the resolver effect follows
ParseDone(p) ==
  /\ p \in parses
  /\ p.parsed = Len(processLyrics(p.data))
  /\ parses' = parses \ {p}
  /\ syncedLyrics' = Installed(p)
  /\ currentLineIndex' = IF lvInst = 0 THEN currentLineIndex
                         ELSE Resolve(syncedLyrics', currentTime, currentLineIndex)
  /\ lastOp' = [op |-> "parseDone", inst |-> p.inst, song |-> p.song,
                scroll |-> IF lvInst = 0 THEN -1
                           ELSE ScrollTarget(syncedLyrics', currentTime, currentLineIndex)]
  /\ UNCHANGED <<variant, inputVars, cacheVars, players, playerState, listeners, lyricsDb, resultsVars, mounts, lvInst, query, data,
                 playerVars, timerVars>>

\* setCurrentTime(t) in the parent, then LyricsView's resolver effect
SetCurrentTime(t) ==
  /\ currentTime' = t
  /\ currentLineIndex' = IF lvInst = 0 THEN currentLineIndex
                         ELSE Resolve(syncedLyrics, t, currentLineIndex)

\* LyricsView alone: the parent passes a new currentTime prop
TimeUpdate(t) ==
  /\ variant \in {"lyrics", "click"}
  /\ SetCurrentTime(t)
  /\ lastOp' = [op |-> "timeUpdate", time |-> t,
                scroll |-> ScrollTarget(syncedLyrics, t, currentLineIndex)]
  /\ UNCHANGED <<variant, inputVars, cacheVars, players, playerState, listeners, lyricsDb, selectedSong, activeTab, seekToRef, mounts, lvInst,
                 query, data, syncedLyrics, parses, playerVars, timerVars>>

\* data.syncedLyrics && data.syncedLyrics.trim() !== ''
hasSyncedLyrics == Truthy(data.syncedLyrics) /\ NonBlank(data.syncedLyrics) # <<>>

ClickTarget_anyTrack(k, onSeek) ==
  IF onSeek THEN syncedLyrics[k].startTime ELSE -1

\* the time handleLineClick passes to onSeek for displayed line k, -1 when it
\* does not call it; onSeek tells whether the parent passed the prop
ClickTarget(k, onSeek) ==
  IF onSeek /\ hasSyncedLyrics THEN syncedLyrics[k].startTime ELSE -1

\* a click on displayed line k, with or without an onSeek prop
lineClick(k, onSeek) ==
  /\ variant = "click"
  /\ Render = "lyrics"
  /\ k \in 1..Len(syncedLyrics)
  /\ lastOp' = [op |-> "lineClick", line |-> k, onSeek |-> onSeek,
                seek |-> ClickTarget(k, onSeek)]
  /\ UNCHANGED <<variant, inputVars, cacheVars, players, lyricsDb, resultsVars, lyricsViewVars, playerVars,
                 timerVars, playerState, listeners>>

InitLyricsView ==
  /\ variant = "lyrics"
  /\ currentState = "results" /\ videoData = NoVideo /\ inputView = NoInputState
  /\ lookups = {} /\ lookupLog = <<>>
  /\ searchCache = <<>> /\ lyricsCache = <<>> /\ putLog = <<>>
  /\ players = <<>>
  /\ lyricsDb \in [{1} -> Responses]
  /\ selectedSong = 1 /\ activeTab = "lyrics" /\ currentTime = 0 /\ seekToRef = "null"
  /\ mounts = 1 /\ lvInst = 1 /\ query = "loading" /\ data = NoData /\ syncedLyrics = <<>> /\ currentLineIndex = -1
  /\ parses = {}
  /\ ytApi = "none" /\ apiCallback = 0 /\ playerRef = 0 /\ playerReady = FALSE
  /\ intervalRef = 0 /\ intervals = {} /\ timeouts = {} /\ nextTimer = 1 /\ now = 0
  /\ playerState = "none" /\ listeners = {}
  /\ lastOp = [op |-> "init"]

NextLyricsView ==
  \/ FetchLyricsDone
  \/ FetchLyricsFailed
  \/ \E p \in parses : ParseStep(p)
  \/ \E p \in parses : ParseDone(p)
  \/ \E t \in Times : TimeUpdate(t)

SpecLyricsView == InitLyricsView /\ [][NextLyricsView]_vars

\* the offsets the parent passes while lines are clicked
ClickTimes == {100, 400}

\* LyricsView alone with its click handler; the parse is taken in one step
InitLineClick ==
  /\ variant = "click"
  /\ currentState = "results" /\ videoData = NoVideo /\ inputView = NoInputState
  /\ lookups = {} /\ lookupLog = <<>>
  /\ searchCache = <<>> /\ lyricsCache = <<>> /\ putLog = <<>>
  /\ players = <<>>
  /\ lyricsDb \in [{1} -> Responses]
  /\ selectedSong = 1 /\ activeTab = "lyrics" /\ currentTime = 0 /\ seekToRef = "null"
  /\ mounts = 1 /\ lvInst = 1 /\ query = "loading" /\ data = NoData /\ syncedLyrics = <<>> /\ currentLineIndex = -1
  /\ parses = {}
  /\ ytApi = "none" /\ apiCallback = 0 /\ playerRef = 0 /\ playerReady = FALSE
  /\ intervalRef = 0 /\ intervals = {} /\ timeouts = {} /\ nextTimer = 1 /\ now = 0
  /\ playerState = "none" /\ listeners = {}
  /\ lastOp = [op |-> "init"]

NextLineClick ==
  \/ FetchLyricsDone
  \/ FetchLyricsFailed
  \/ \E p \in parses : ParseDone(p)
  \/ \E t \in ClickTimes : TimeUpdate(t)
  \/ \E k \in 1..MaxLines, onSeek \in BOOLEAN : lineClick(k, onSeek)

SpecLineClick == InitLineClick /\ [][NextLineClick]_vars

(***************************************************************************)
(* ResultsState with the YouTubePlayer component (the seekToRef variant),  *)
(* YouTubePlayer and LyricsView together.  The lyrics tab renders          *)
(* <YouTubePlayer> and <LyricsView>; the search tab renders                *)
(* <SearchResultsView>, the only caller of handleSongSelect.               *)
(***************************************************************************)
AppSongs == {1, 2}

AppDbs ==
  {[song \in AppSongs |->
      IF song = 1
      THEN [syncedLyrics |-> <<Line0100, Line0350>>, plainLyrics |-> Null,
            instrumental |-> FALSE]
      ELSE second] :
     second \in {[syncedLyrics |-> Null, plainLyrics |-> PlainPayload,
                  instrumental |-> FALSE],
                 [syncedLyrics |-> <<Line0350, LineNoTag, Line6200>>,
                  plainLyrics |-> PlainPayload, instrumental |-> FALSE]}}

\* YT.PlayerState: UNSTARTED (-1), ENDED (0), PLAYING (1), PAUSED (2), BUFFERING (3),
\* CUED (5); no handler tells BUFFERING or CUED from UNSTARTED
PlayerStates == {"unstarted", "ended", "playing", "paused"}

\* window.clearInterval(id)
clearInterval(id) == {i \in intervals : i.id # id}

\* the offsets the embedded player reports to getCurrentTime()
PlayerTimes == {0, 100, 350, 900}

\* what a call of getCurrentTime() does: it gives an offset or it throws
PlayerReports ==
  {[throws |-> FALSE, time |-> t] : t \in PlayerTimes} \cup {[throws |-> TRUE, time |-> 0]}

\* what lastOp keeps of a tick that wrote nothing: why, where the error went,
\* currentTime before the tick and the interval whose callback ran
FailedTick(i, why, error) ==
  [op |-> "tick", time |-> currentTime, failed |-> why, error |-> error,
   before |-> currentTime, interval |-> i.id]

\* activeTab becomes "lyrics": YouTubePlayer's mount effects (script tag, global
\* callback, initializePlayer when YT is loaded, onSeek(seekTo)) and a LyricsView
\* in its initial state
MountLyricsTab ==
  /\ mounts' = mounts + 1
  /\ lvInst' = mounts + 1
  /\ query' = "loading" /\ data' = NoData
  /\ syncedLyrics' = <<>> /\ currentLineIndex' = -1
  /\ ytApi' = IF ytApi = "none" THEN "loading" ELSE ytApi
  /\ apiCallback' = mounts + 1
  /\ playerRef' = IF ytApi = "ready" THEN 1 ELSE 0
  /\ playerReady' = FALSE
  /\ playerState' = "none"
  /\ seekToRef' = "notReady"

\* activeTab leaves "lyrics": YouTubePlayer's cleanup, and both components' state
\* is discarded; seekToRef keeps the closure of the gone player
UnmountLyricsTab ==
  /\ lvInst' = 0
  /\ query' = "loading" /\ data' = NoData
  /\ syncedLyrics' = <<>> /\ currentLineIndex' = -1
  /\ apiCallback' = 0
  /\ intervals' = clearInterval(intervalRef)
  /\ intervalRef' = 0
  /\ playerRef' = 0
  /\ playerReady' = FALSE
  /\ playerState' = "none"
  /\ UNCHANGED <<mounts, ytApi, seekToRef>>

handleSongSelect(song) ==
  /\ variant = "app"
  /\ activeTab = "search"
  /\ mounts < MaxMounts
  /\ selectedSong' = song
  /\ activeTab' = "lyrics"
  /\ MountLyricsTab
  /\ lastOp' = [op |-> "handleSongSelect", song |-> song, previous |-> selectedSong]
  /\ UNCHANGED <<variant, inputVars, cacheVars, players, listeners, lyricsDb, currentTime, parses, timerVars>>

\* the navigation buttons; the lyrics button is disabled without a selected song
setActiveTab(tab) ==
  /\ variant = "app"
  /\ tab # activeTab
  /\ activeTab' = tab
  /\ IF tab = "lyrics"
     THEN /\ selectedSong # 0
          /\ mounts < MaxMounts
          /\ MountLyricsTab
          /\ UNCHANGED timerVars
     ELSE /\ UnmountLyricsTab
          /\ UNCHANGED <<timeouts, nextTimer, now>>
  /\ lastOp' = [op |-> "setActiveTab", tab |-> tab]
  /\ UNCHANGED <<variant, inputVars, cacheVars, players, listeners, lyricsDb, selectedSong, currentTime, parses>>

\* the iframe_api script has loaded and calls window.onYouTubeIframeAPIReady,
\* which runs the mounted instance's initializePlayer
ApiLoaded ==
  /\ variant = "app"
  /\ ytApi = "loading"
  /\ ytApi' = "ready"
  /\ playerRef' = IF apiCallback # 0 THEN 1 ELSE playerRef
  /\ lastOp' = [op |-> "apiLoaded"]
  /\ UNCHANGED <<variant, inputVars, cacheVars, players, playerState, listeners, lyricsDb, resultsVars, lyricsViewVars, apiCallback,
                 playerReady, timerVars>>

\* the player's onReady event: setPlayerReady(true), the time-update interval is
\* (re)started, and the re-render registers a seekTo that sees playerReady
onReady ==
  /\ variant = "app"
  /\ playerRef # 0 /\ ~playerReady
  /\ nextTimer <= MaxTimers
  /\ playerReady' = TRUE
  /\ intervals' = clearInterval(intervalRef) \cup {[id |-> nextTimer]}
  /\ intervalRef' = nextTimer
  /\ nextTimer' = nextTimer + 1
  /\ seekToRef' = "ready"
  /\ playerState' = "ready"
  /\ lastOp' = [op |-> "onReady"]
  /\ UNCHANGED <<variant, inputVars, cacheVars, players, listeners, lyricsDb, selectedSong, activeTab, currentTime,
                 lyricsViewVars, ytApi, apiCallback, playerRef, timeouts, now>>

\* the player's onStateChange event: the onPlay, onPause and onEnd props it would
\* call are not passed by ResultsState, and the interval is left as it is
onStateChange(state) ==
  /\ variant = "app"
  /\ playerRef # 0 /\ playerReady
  /\ state # playerState
  /\ playerState' = state
  /\ lastOp' = [op |-> "onStateChange", state |-> state]
  /\ UNCHANGED <<variant, inputVars, cacheVars, players, listeners, lyricsDb, resultsVars, lyricsViewVars, playerVars,
                 timerVars>>

\* a run of YouTubePlayer's interval callback with getCurrentTime() doing r: the
\* callback catches what getCurrentTime or onTimeUpdate throws and logs it
timeUpdateTick(i, r) ==
  /\ variant = "app"
  /\ i \in intervals
  /\ IF playerRef # 0 /\ ~r.throws
     THEN SetCurrentTime(r.time)
     ELSE UNCHANGED <<currentTime, currentLineIndex>>
  /\ lastOp' = IF playerRef = 0 THEN FailedTick(i, "absent", "none")
               ELSE IF r.throws THEN FailedTick(i, "throws", "logged")
               ELSE [op |-> "tick", time |-> r.time]
  /\ UNCHANGED <<variant, inputVars, cacheVars, players, playerState, listeners, lyricsDb, selectedSong, activeTab, seekToRef, mounts, lvInst,
                 query, data, syncedLyrics, parses, playerVars, timerVars>>

\* player.seekTo is reached: seekToRef holds a seekTo whose playerReady is true
\* and playerRef.current is a player
SeekIssued == seekToRef = "ready" /\ playerRef # 0

\* what handleSeek does, in the order it does it
SeekEffects ==
  (IF SeekIssued THEN <<"seekTo">> ELSE <<>>) \o <<"setCurrentTime">>

handleSeek(time) ==
  /\ SetCurrentTime(time)
  /\ lastOp' = [op |-> "handleSeek", time |-> time, effects |-> SeekEffects]
  /\ UNCHANGED <<variant, inputVars, cacheVars, players, playerState, listeners, lyricsDb, selectedSong, activeTab, seekToRef, mounts, lvInst,
                 query, data, syncedLyrics, parses, playerVars, timerVars>>

\* a click on displayed line k
handleLineClick(k) ==
  /\ variant = "app"
  /\ lvInst # 0 /\ query = "success" /\ ~data.instrumental
  /\ k \in 1..Len(syncedLyrics)
  /\ hasSyncedLyrics
  /\ handleSeek(syncedLyrics[k].startTime)

InitApp ==
  /\ variant = "app"
  /\ currentState = "results" /\ videoData = NoVideo /\ inputView = NoInputState
  /\ lookups = {} /\ lookupLog = <<>>
  /\ searchCache = <<>> /\ lyricsCache = <<>> /\ putLog = <<>>
  /\ players = <<>>
  /\ lyricsDb \in AppDbs
  /\ selectedSong = 0 /\ activeTab = "search" /\ currentTime = 0 /\ seekToRef = "null"
  /\ mounts = 0 /\ lvInst = 0 /\ query = "loading" /\ data = NoData
  /\ syncedLyrics = <<>> /\ currentLineIndex = -1 /\ parses = {}
  /\ ytApi = "none" /\ apiCallback = 0 /\ playerRef = 0 /\ playerReady = FALSE
  /\ intervalRef = 0 /\ intervals = {} /\ timeouts = {} /\ nextTimer = 1 /\ now = 0
  /\ playerState = "none" /\ listeners = {}
  /\ lastOp = [op |-> "init"]

NextApp ==
  \/ \E song \in AppSongs : handleSongSelect(song)
  \/ \E tab \in {"search", "lyrics"} : setActiveTab(tab)
  \/ FetchLyricsDone
  \/ \E p \in parses : ParseDone(p)
  \/ ApiLoaded
  \/ onReady
  \/ \E state \in PlayerStates : onStateChange(state)
  \/ \E i \in intervals, r \in PlayerReports : timeUpdateTick(i, r)
  \/ \E k \in 1..MaxLines : handleLineClick(k)

SpecApp == InitApp /\ [][NextApp]_vars

(***************************************************************************)
(* ResultsState with its own YT.Player, polled every 200 ms (the variant   *)
(* of client/src/components/ResultsState.tsx).  Its playerReady state says *)
(* that the iframe API script has loaded.                                  *)
(***************************************************************************)
startTimeTracking_noClear ==
  /\ nextTimer <= MaxTimers
  /\ intervals' = intervals \cup {[id |-> nextTimer]}
  /\ intervalRef' = nextTimer
  /\ nextTimer' = nextTimer + 1
  /\ UNCHANGED <<timeouts, now>>

startTimeTracking ==
  /\ nextTimer <= MaxTimers
  /\ intervals' = clearInterval(intervalRef) \cup {[id |-> nextTimer]}
  /\ intervalRef' = nextTimer
  /\ nextTimer' = nextTimer + 1
  /\ UNCHANGED <<timeouts, now>>

\* the same function in both ResultsState variants that track time themselves
stopTimeTracking ==
  /\ intervals' = clearInterval(intervalRef)
  /\ intervalRef' = 0
  /\ UNCHANGED <<timeouts, nextTimer, now>>

\* window.onYouTubeIframeAPIReady: setPlayerReady(true), and the effect on
\* [playerReady, videoId] creates the player
onYouTubeIframeAPIReady ==
  /\ variant = "poll"
  /\ ytApi = "loading"
  /\ ytApi' = "ready"
  /\ playerReady' = TRUE
  /\ playerRef' = 1
  /\ apiCallback' = 0
  /\ lastOp' = [op |-> "onYouTubeIframeAPIReady"]
  /\ UNCHANGED <<variant, inputVars, cacheVars, players, lyricsDb, resultsVars, lyricsViewVars, timerVars, playerState,
                 listeners>>

\* events.onReady of ResultsState's player
onReady_poll ==
  /\ variant = "poll"
  /\ playerRef # 0 /\ playerState = "none"
  /\ startTimeTracking
  /\ playerState' = "ready"
  /\ lastOp' = [op |-> "onReady", call |-> "startTimeTracking", live |-> intervalRef # 0]
  /\ UNCHANGED <<variant, inputVars, cacheVars, players, lyricsDb, resultsVars, lyricsViewVars, playerVars, listeners>>

\* events.onStateChange of ResultsState's player
onStateChange_poll(state) ==
  /\ variant = "poll"
  /\ playerRef # 0 /\ playerState # "none"
  /\ state # playerState
  /\ IF state = "playing" THEN startTimeTracking ELSE stopTimeTracking
  /\ playerState' = state
  /\ lastOp' = [op |-> "onStateChange", state |-> state,
                call |-> IF state = "playing" THEN "startTimeTracking" ELSE "stopTimeTracking",
                live |-> intervalRef # 0]
  /\ UNCHANGED <<variant, inputVars, cacheVars, players, lyricsDb, resultsVars, lyricsViewVars, playerVars, listeners>>

\* a run of the 200 ms interval callback with getCurrentTime() doing r: the
\* callback has no try block, what getCurrentTime throws leaves it uncaught
pollTick(i, r) ==
  /\ variant = "poll"
  /\ i \in intervals
  /\ IF playerRef # 0 /\ ~r.throws
     THEN SetCurrentTime(r.time)
     ELSE UNCHANGED <<currentTime, currentLineIndex>>
  /\ lastOp' = IF playerRef = 0 THEN FailedTick(i, "absent", "none")
               ELSE IF r.throws THEN FailedTick(i, "throws", "uncaught")
               ELSE [op |-> "tick", time |-> r.time]
  /\ UNCHANGED <<variant, inputVars, cacheVars, players, lyricsDb, selectedSong, activeTab, seekToRef, mounts, lvInst,
                 query, data, syncedLyrics, parses, playerVars, timerVars, playerState,
                 listeners>>

\* ResultsState is mounted: either the mount effect inserts the script tag and
\* waits for the API, or the tag is there and the player is created at once
InitPoll ==
  /\ variant = "poll"
  /\ currentState = "results" /\ videoData = NoVideo /\ inputView = NoInputState
  /\ lookups = {} /\ lookupLog = <<>>
  /\ searchCache = <<>> /\ lyricsCache = <<>> /\ putLog = <<>>
  /\ players = <<>>
  /\ lyricsDb = <<>>
  /\ selectedSong = 0 /\ activeTab = "search" /\ currentTime = 0 /\ seekToRef = "null"
  /\ mounts = 0 /\ lvInst = 0 /\ query = "loading" /\ data = NoData
  /\ syncedLyrics = <<>> /\ currentLineIndex = -1 /\ parses = {}
  /\ \/ ytApi = "loading" /\ apiCallback = 1 /\ playerReady = FALSE /\ playerRef = 0
     \/ ytApi = "ready" /\ apiCallback = 0 /\ playerReady = TRUE /\ playerRef = 1
  /\ intervalRef = 0 /\ intervals = {} /\ timeouts = {} /\ nextTimer = 1 /\ now = 0
  /\ playerState = "none" /\ listeners = {}
  /\ lastOp = [op |-> "init"]

NextPoll ==
  \/ onYouTubeIframeAPIReady
  \/ onReady_poll
  \/ \E state \in PlayerStates : onStateChange_poll(state)
  \/ \E i \in intervals, r \in PlayerReports : pollTick(i, r)

SpecPoll == InitPoll /\ [][NextPoll]_vars

(***************************************************************************)
(* ResultsState with a plain iframe embed, estimating the offset from the  *)
(* wall clock (the second variant of unnamed/part_004).  A function of a   *)
(* render closes over that render's currentTime; a timer callback keeps    *)
(* the functions of the render that made it.                               *)
(***************************************************************************)
\* the period of the estimation interval, 100 ms
Period == 10

\* the delay before tracking starts after a click and restarts after a seek, 500 ms
RestartDelay == 50

\* the delay before the click listener is installed, 1000 ms
IframeLoadDelay == 100

\* the wall clock is looked at once every restart delay, MaxTicks times
ClockStep == RestartDelay

MaxTicks == 4

\* startTimeTracking of a render whose currentTime was closure; seek is the target
\* of the seek that called for it, -1 without one
startTimeTracking_est(closure, seek) ==
  /\ nextTimer <= MaxTimers
  /\ intervals' = clearInterval(intervalRef) \cup
                    {[id |-> nextTimer, startTracking |-> now,
                      accumulatedTime |-> closure, seek |-> seek]}
  /\ intervalRef' = nextTimer
  /\ nextTimer' = nextTimer + 1
  /\ UNCHANGED now

\* the state of the LyricsView child, whose behaviour is that of SpecApp's; here
\* it is the source of handleSeek's targets and is left in its initial state
LyricsViewState == <<lvInst, query, data, syncedLyrics, currentLineIndex, parses>>

\* the effect on [activeTab, videoId] with activeTab "lyrics": the iframe is put
\* into the container and startManualTracking is scheduled
SetupPlayer ==
  /\ nextTimer <= MaxTimers
  /\ timeouts' = timeouts \cup {[kind |-> "startManualTracking", due |-> now + IframeLoadDelay,
                                 time |-> 0, closure |-> currentTime]}
  /\ nextTimer' = nextTimer + 1

handleSongSelect_est(song) ==
  /\ variant = "est"
  /\ activeTab = "search"
  /\ mounts < MaxMounts
  /\ selectedSong' = song
  /\ activeTab' = "lyrics"
  /\ mounts' = mounts + 1
  /\ SetupPlayer
  /\ lastOp' = [op |-> "handleSongSelect", song |-> song, previous |-> selectedSong]
  /\ UNCHANGED <<variant, inputVars, cacheVars, players, lyricsDb, currentTime, seekToRef, LyricsViewState, playerVars,
                 playerState, listeners, intervalRef, intervals, now>>

\* the breadcrumb buttons; leaving the lyrics tab runs the effect's cleanup and
\* removes the container with its listeners
setActiveTab_est(tab) ==
  /\ variant = "est"
  /\ tab # activeTab
  /\ activeTab' = tab
  /\ IF tab = "lyrics"
     THEN /\ selectedSong # 0
          /\ mounts < MaxMounts
          /\ mounts' = mounts + 1
          /\ SetupPlayer
          /\ UNCHANGED <<listeners, intervalRef, intervals, now>>
     ELSE /\ stopTimeTracking
          /\ listeners' = {}
          /\ UNCHANGED mounts
  /\ lastOp' = IF tab = "lyrics" THEN [op |-> "setActiveTab", tab |-> tab]
               ELSE [op |-> "setActiveTab", tab |-> tab, call |-> "stopTimeTracking",
                     live |-> intervalRef # 0]
  /\ UNCHANGED <<variant, inputVars, cacheVars, players, lyricsDb, selectedSong, currentTime, seekToRef, LyricsViewState,
                 playerVars, playerState>>

\* the timeout of the setup effect: the listener goes onto the container that is
\* in the document now, if there is one
startManualTracking(t) ==
  /\ variant = "est"
  /\ t \in timeouts /\ t.kind = "startManualTracking" /\ t.due <= now
  /\ timeouts' = timeouts \ {t}
  /\ listeners' = IF activeTab = "lyrics" THEN listeners \cup {t.closure} ELSE listeners
  /\ lastOp' = [op |-> "startManualTracking"]
  /\ UNCHANGED <<variant, inputVars, cacheVars, players, lyricsDb, resultsVars, lyricsViewVars, playerVars, playerState,
                 intervalRef, intervals, nextTimer, now>>

\* a click on the container: every listener schedules its start of tracking
containerClick ==
  /\ variant = "est"
  /\ activeTab = "lyrics" /\ listeners # {}
  /\ timeouts' = timeouts \cup
       {[kind |-> "click", due |-> now + RestartDelay, time |-> 0, closure |-> c] :
          c \in listeners}
  /\ nextTimer + Cardinality(listeners) - 1 <= MaxTimers
  /\ nextTimer' = nextTimer + Cardinality(listeners)
  /\ lastOp' = [op |-> "click"]
  /\ UNCHANGED <<variant, inputVars, cacheVars, players, lyricsDb, resultsVars, lyricsViewVars, playerVars, playerState,
                 listeners, intervalRef, intervals, now>>

\* the timeout of a click: setCurrentTime(0); startTimeTracking()
clickTimeout(t) ==
  /\ variant = "est"
  /\ t \in timeouts /\ t.kind = "click" /\ t.due <= now
  /\ timeouts' = timeouts \ {t}
  /\ SetCurrentTime(0)
  /\ startTimeTracking_est(t.closure, -1)
  /\ lastOp' = [op |-> "clickTimeout", call |-> "startTimeTracking", live |-> intervalRef # 0]
  /\ UNCHANGED <<variant, inputVars, cacheVars, players, lyricsDb, selectedSong, activeTab, seekToRef, mounts, lvInst,
                 query, data, syncedLyrics, parses, playerVars, playerState, listeners>>

\* the iframe of the setup effect is in the document
IframePresent == activeTab = "lyrics"

\* handleSeek of a render whose currentTime is the state's: the timeout keeps that
\* render's startTimeTracking
handleSeek_est(time) ==
  /\ variant = "est"
  /\ activeTab = "lyrics"
  /\ SetCurrentTime(time)
  /\ intervals' = clearInterval(intervalRef)
  /\ intervalRef' = 0
  /\ timeouts' = IF IframePresent
                 THEN timeouts \cup {[kind |-> "seek", due |-> now + RestartDelay,
                                      time |-> time, closure |-> currentTime]}
                 ELSE timeouts
  /\ IframePresent => nextTimer <= MaxTimers
  /\ nextTimer' = IF IframePresent THEN nextTimer + 1 ELSE nextTimer
  /\ lastOp' = [op |-> "handleSeek", time |-> time, call |-> "stopTimeTracking",
                live |-> intervalRef # 0,
                effects |-> <<"setCurrentTime", "stopTimeTracking">> \o
                            (IF IframePresent THEN <<"seekTo", "setTimeout">> ELSE <<>>)]
  /\ UNCHANGED <<variant, inputVars, cacheVars, players, lyricsDb, selectedSong, activeTab, seekToRef, mounts, lvInst,
                 query, data, syncedLyrics, parses, playerVars, playerState, listeners,
                 now>>

\* the songs SearchResultsView offers
EstSongs == {1}

\* the start times of the lines LyricsView displays and passes to onSeek on a click
SeekTimes == {100, 350}

\* the timeout of a seek: startTimeTracking()
seekTimeout(t) ==
  /\ variant = "est"
  /\ t \in timeouts /\ t.kind = "seek" /\ t.due <= now
  /\ timeouts' = timeouts \ {t}
  /\ startTimeTracking_est(t.closure, t.time)
  /\ lastOp' = [op |-> "seekTimeout", time |-> t.time, call |-> "startTimeTracking",
                live |-> intervalRef # 0]
  /\ UNCHANGED <<variant, inputVars, cacheVars, players, lyricsDb, resultsVars, lyricsViewVars, playerVars, playerState,
                 listeners>>

\* the offsets the iframe reports in a currentTime message
ReportedTimes == {350}

\* the messages of the iframe that handleMessage acts on
Messages ==
  {[event |-> "onStateChange", info |-> state] : state \in PlayerStates}
    \cup {[event |-> "currentTime", info |-> t] : t \in ReportedTimes}

\* the listener of the effect with no dependencies, so of the first render, whose
\* currentTime is 0
handleMessage(msg) ==
  /\ variant = "est"
  /\ IframePresent
  /\ IF msg.event = "onStateChange"
     THEN /\ IF msg.info = "playing"
             THEN startTimeTracking_est(0, -1) /\ UNCHANGED timeouts
             ELSE stopTimeTracking
          /\ UNCHANGED <<currentTime, currentLineIndex>>
     ELSE /\ SetCurrentTime(msg.info)
          /\ UNCHANGED timerVars
  /\ lastOp' = IF msg.event = "onStateChange"
               THEN [op |-> "handleMessage", event |-> msg.event,
                     call |-> IF msg.info = "playing" THEN "startTimeTracking"
                              ELSE "stopTimeTracking",
                     live |-> intervalRef # 0]
               ELSE [op |-> "handleMessage", event |-> msg.event]
  /\ UNCHANGED <<variant, inputVars, cacheVars, players, lyricsDb, selectedSong, activeTab, seekToRef, mounts, lvInst,
                 query, data, syncedLyrics, parses, playerVars, playerState, listeners>>

\* a run of the estimation interval's callback
estimateTick(i) ==
  /\ variant = "est"
  /\ i \in intervals
  /\ now >= i.startTracking + Period
  /\ SetCurrentTime(i.accumulatedTime + (now - i.startTracking))
  /\ lastOp' = [op |-> "tick", time |-> currentTime', seek |-> i.seek]
  /\ UNCHANGED <<variant, inputVars, cacheVars, players, lyricsDb, selectedSong, activeTab, seekToRef, mounts, lvInst,
                 query, data, syncedLyrics, parses, playerVars, timerVars, playerState,
                 listeners>>

\* the wall clock moves on, once the timeouts that are due have run
ClockTick ==
  /\ variant = "est"
  /\ now < MaxTicks * ClockStep
  /\ \A t \in timeouts : t.due > now
  /\ now' = now + ClockStep
  /\ lastOp' = [op |-> "clock"]
  /\ UNCHANGED <<variant, inputVars, cacheVars, players, lyricsDb, resultsVars, lyricsViewVars, playerVars, playerState,
                 listeners, intervalRef, intervals, timeouts, nextTimer>>

InitEst ==
  /\ variant = "est"
  /\ currentState = "results" /\ videoData = NoVideo /\ inputView = NoInputState
  /\ lookups = {} /\ lookupLog = <<>>
  /\ searchCache = <<>> /\ lyricsCache = <<>> /\ putLog = <<>>
  /\ players = <<>>
  /\ lyricsDb = <<>>
  /\ selectedSong = 0 /\ activeTab = "search" /\ currentTime = 0 /\ seekToRef = "null"
  /\ mounts = 0 /\ lvInst = 0 /\ query = "loading" /\ data = NoData
  /\ syncedLyrics = <<>> /\ currentLineIndex = -1 /\ parses = {}
  /\ ytApi = "none" /\ apiCallback = 0 /\ playerRef = 0 /\ playerReady = FALSE
  /\ intervalRef = 0 /\ intervals = {} /\ timeouts = {} /\ nextTimer = 1 /\ now = 0
  /\ playerState = "none" /\ listeners = {}
  /\ lastOp = [op |-> "init"]

NextEst ==
  \/ \E song \in EstSongs : handleSongSelect_est(song)
  \/ \E tab \in {"search", "lyrics"} : setActiveTab_est(tab)
  \/ \E t \in timeouts : startManualTracking(t)
  \/ containerClick
  \/ \E t \in timeouts : clickTimeout(t)
  \/ \E time \in SeekTimes : handleSeek_est(time)
  \/ \E t \in timeouts : seekTimeout(t)
  \/ \E msg \in Messages : handleMessage(msg)
  \/ \E i \in intervals : estimateTick(i)
  \/ ClockTick

SpecEst == InitEst /\ [][NextEst]_vars

(***************************************************************************)
(* The estimating ResultsState from the moment a song has been selected,   *)
(* with play, pause, clicks on the video and the clock only: no seek, no   *)
(* selection and no tab change.                                            *)
(***************************************************************************)
\* the state handleSongSelect(1) leaves the freshly mounted ResultsState in
InitEstPlayback ==
  /\ variant = "est"
  /\ currentState = "results" /\ videoData = NoVideo /\ inputView = NoInputState
  /\ lookups = {} /\ lookupLog = <<>>
  /\ searchCache = <<>> /\ lyricsCache = <<>> /\ putLog = <<>>
  /\ players = <<>>
  /\ lyricsDb = <<>>
  /\ selectedSong = 1 /\ activeTab = "lyrics" /\ currentTime = 0 /\ seekToRef = "null"
  /\ mounts = 1 /\ lvInst = 0 /\ query = "loading" /\ data = NoData
  /\ syncedLyrics = <<>> /\ currentLineIndex = -1 /\ parses = {}
  /\ ytApi = "none" /\ apiCallback = 0 /\ playerRef = 0 /\ playerReady = FALSE
  /\ intervalRef = 0 /\ intervals = {} /\ nextTimer = 2 /\ now = 0
  /\ timeouts = {[kind |-> "startManualTracking", due |-> IframeLoadDelay,
                  time |-> 0, closure |-> 0]}
  /\ playerState = "none" /\ listeners = {}
  /\ lastOp = [op |-> "handleSongSelect", song |-> 1, previous |-> 0]

NextEstPlayback ==
  \/ \E t \in timeouts : startManualTracking(t)
  \/ containerClick
  \/ \E t \in timeouts : clickTimeout(t)
  \/ \E msg \in Messages : handleMessage(msg)
  \/ \E i \in intervals : estimateTick(i)
  \/ ClockTick

SpecEstPlayback == InitEstPlayback /\ [][NextEstPlayback]_vars

(***************************************************************************)
(* The three time trackers side by side: a behaviour is one of the polling *)
(* ResultsState, the estimating ResultsState, or ResultsState with the     *)
(* YouTubePlayer component.                                                *)
(***************************************************************************)
InitTracking == InitPoll \/ InitEst \/ InitApp

NextTracking == NextPoll \/ NextEst \/ NextApp

SpecTracking == InitTracking /\ [][NextTracking]_vars

(***************************************************************************)
(* ResultsState that tries YT.Player and falls back to a plain iframe (the *)
(* second variant of unnamed/part_003).  Its player effect depends on      *)
(* [playerReady, videoId, currentTime] and needs the container, which is   *)
(* rendered in the lyrics tab only.                                        *)
(***************************************************************************)
MountLyricsView ==
  /\ mounts' = mounts + 1
  /\ lvInst' = mounts + 1
  /\ query' = "loading" /\ data' = NoData
  /\ syncedLyrics' = <<>> /\ currentLineIndex' = -1

UnmountLyricsView ==
  /\ lvInst' = 0
  /\ query' = "loading" /\ data' = NoData
  /\ syncedLyrics' = <<>> /\ currentLineIndex' = -1
  /\ UNCHANGED mounts

\* the player effect's body, run with the tab that is rendered: without the
\* container it returns at once and playerRef keeps what it held
CreatePlayer(tab) ==
  IF tab = "lyrics"
  THEN playerRef' = 1 /\ playerState' = "none"
  ELSE UNCHANGED <<playerRef, playerState>>

handleSongSelect_fallback(song) ==
  /\ variant = "fallback"
  /\ activeTab = "search"
  /\ mounts < MaxMounts
  /\ selectedSong' = song
  /\ activeTab' = "lyrics"
  /\ MountLyricsView
  /\ lastOp' = [op |-> "handleSongSelect", song |-> song, previous |-> selectedSong]
  /\ UNCHANGED <<variant, inputVars, cacheVars, players, lyricsDb, currentTime, seekToRef, parses, playerVars,
                 playerState, listeners, timerVars>>

setActiveTab_fallback(tab) ==
  /\ variant = "fallback"
  /\ tab # activeTab
  /\ activeTab' = tab
  /\ IF tab = "lyrics"
     THEN selectedSong # 0 /\ mounts < MaxMounts /\ MountLyricsView
     ELSE UnmountLyricsView
  /\ lastOp' = [op |-> "setActiveTab", tab |-> tab]
  /\ UNCHANGED <<variant, inputVars, cacheVars, players, lyricsDb, selectedSong, currentTime, seekToRef, parses,
                 playerVars, playerState, listeners, timerVars>>

\* window.onYouTubeIframeAPIReady: setPlayerReady(true), then the player effect
onYouTubeIframeAPIReady_fallback ==
  /\ variant = "fallback"
  /\ ytApi = "loading"
  /\ ytApi' = "ready"
  /\ playerReady' = TRUE
  /\ apiCallback' = 0
  /\ CreatePlayer(activeTab)
  /\ lastOp' = [op |-> "onYouTubeIframeAPIReady"]
  /\ UNCHANGED <<variant, inputVars, cacheVars, players, lyricsDb, resultsVars, lyricsViewVars, timerVars, listeners>>

onReady_fallback ==
  /\ variant = "fallback"
  /\ playerRef # 0 /\ playerState = "none"
  /\ startTimeTracking
  /\ playerState' = "ready"
  /\ lastOp' = [op |-> "onReady", call |-> "startTimeTracking", live |-> intervalRef # 0]
  /\ UNCHANGED <<variant, inputVars, cacheVars, players, lyricsDb, resultsVars, lyricsViewVars, playerVars, listeners>>

onStateChange_fallback(state) ==
  /\ variant = "fallback"
  /\ playerRef # 0 /\ playerState # "none"
  /\ state # playerState
  /\ IF state = "playing" THEN startTimeTracking ELSE stopTimeTracking
  /\ playerState' = state
  /\ lastOp' = [op |-> "onStateChange", state |-> state,
                call |-> IF state = "playing" THEN "startTimeTracking" ELSE "stopTimeTracking",
                live |-> intervalRef # 0]
  /\ UNCHANGED <<variant, inputVars, cacheVars, players, lyricsDb, resultsVars, lyricsViewVars, playerVars, listeners>>

\* a run of the 200 ms interval callback; a new currentTime re-runs the player
\* effect: its cleanup stops tracking and destroys the player, its body makes
\* a new one
fallbackTick(i, t) ==
  /\ variant = "fallback"
  /\ i \in intervals
  /\ playerRef # 0
  /\ t # currentTime
  /\ SetCurrentTime(t)
  /\ stopTimeTracking
  /\ CreatePlayer(activeTab)
  /\ lastOp' = [op |-> "tick", time |-> t, interval |-> i.id]
  /\ UNCHANGED <<variant, inputVars, cacheVars, players, lyricsDb, selectedSong, activeTab, seekToRef, mounts, lvInst,
                 query, data, syncedLyrics, parses, ytApi, apiCallback, playerReady,
                 listeners>>

\* handleSeek of this variant: the seek command when there is a player with a
\* seekTo, and nothing else
handleSeek_fallback(time) ==
  /\ lastOp' = [op |-> "handleSeek", time |-> time,
                effects |-> IF playerRef # 0 THEN <<"seekTo">> ELSE <<>>]
  /\ UNCHANGED <<variant, inputVars, cacheVars, players, lyricsDb, resultsVars, lyricsViewVars, playerVars, timerVars,
                 playerState, listeners>>

handleLineClick_fallback(k) ==
  /\ variant = "fallback"
  /\ lvInst # 0 /\ query = "success" /\ ~data.instrumental
  /\ k \in 1..Len(syncedLyrics)
  /\ hasSyncedLyrics
  /\ handleSeek_fallback(syncedLyrics[k].startTime)

\* ResultsState is mounted on the search tab and has inserted the script tag
InitFallback ==
  /\ variant = "fallback"
  /\ currentState = "results" /\ videoData = NoVideo /\ inputView = NoInputState
  /\ lookups = {} /\ lookupLog = <<>>
  /\ searchCache = <<>> /\ lyricsCache = <<>> /\ putLog = <<>>
  /\ players = <<>>
  /\ lyricsDb \in AppDbs
  /\ selectedSong = 0 /\ activeTab = "search" /\ currentTime = 0 /\ seekToRef = "null"
  /\ mounts = 0 /\ lvInst = 0 /\ query = "loading" /\ data = NoData
  /\ syncedLyrics = <<>> /\ currentLineIndex = -1 /\ parses = {}
  /\ ytApi = "loading" /\ apiCallback = 1 /\ playerReady = FALSE /\ playerRef = 0
  /\ intervalRef = 0 /\ intervals = {} /\ timeouts = {} /\ nextTimer = 1 /\ now = 0
  /\ playerState = "none" /\ listeners = {}
  /\ lastOp = [op |-> "init"]

NextFallback ==
  \/ \E song \in AppSongs : handleSongSelect_fallback(song)
  \/ \E tab \in {"search", "lyrics"} : setActiveTab_fallback(tab)
  \/ FetchLyricsDone
  \/ \E p \in parses : ParseDone(p)
  \/ onYouTubeIframeAPIReady_fallback
  \/ onReady_fallback
  \/ \E state \in PlayerStates : onStateChange_fallback(state)
  \/ \E i \in intervals, t \in PlayerTimes : fallbackTick(i, t)
  \/ \E k \in 1..MaxLines : handleLineClick_fallback(k)

SpecFallback == InitFallback /\ [][NextFallback]_vars

(***************************************************************************)
(* Claims on the parser and the resolver, under SpecLyricsView.            *)
(* The expected values are written from the payload lines themselves: the  *)
(* tagged input lines and the offsets their tags spell.                    *)
(***************************************************************************)
TaggedLines == {Line0100, Line0350, Line6200}

StampOf(line) ==
  CASE line = Line0100 -> 100
    [] line = Line0350 -> 350
    [] line = Line6200 -> 6200

\* the payload's lines that hold more than white space
Written(payload) == SelectSeq(payload, LAMBDA line : line \notin {LineSpaces, LineEmpty})

Tagged(payload) == SelectSeq(Written(payload), LAMBDA line : line \in TaggedLines)

Untagged(payload) == SelectSeq(Written(payload), LAMBDA line : line \notin TaggedLines)

NonDecreasing(lines) ==
  \A k \in 1..(Len(lines) - 1) : StampOf(lines[k]) <= StampOf(lines[k + 1])

Increasing(lines) ==
  \A k \in 1..(Len(lines) - 1) : StampOf(lines[k]) < StampOf(lines[k + 1])

\* the line-timed payload is the one parsed
TimedPayload == data.syncedLyrics # Null /\ data.syncedLyrics # <<LineEmpty>>

\* the untimed payload is the one parsed
UntimedPayload == ~TimedPayload /\ data.plainLyrics # Null

\* the record has arrived and its parse is installed
ParseInstalled == lvInst # 0 /\ query = "success" /\ parses = {}

InInterval(line, t) == line.startTime <= t /\ t < line.endTime

\* C1: whenever currentTime lies in no line's [startTime, endTime) interval, or the
\* sequence is empty, the active line index is the none sentinel -1.
C1_NoMatchIsNone ==
  (lvInst # 0 /\ \A k \in 1..Len(syncedLyrics) : ~InInterval(syncedLyrics[k], currentTime))
    => currentLineIndex = -1

\* C6: for a valid line-timed payload (every written line tagged, offsets not
\* decreasing) the parsed start times do not decrease, every line but the last ends
\* where the next one starts, and the last line's end is unbounded.
C6_ValidTimedSequence ==
  (/\ ParseInstalled /\ TimedPayload
   /\ Untagged(data.syncedLyrics) = <<>>
   /\ NonDecreasing(Tagged(data.syncedLyrics)))
    => /\ \A k \in 1..(Len(syncedLyrics) - 1) :
            /\ syncedLyrics[k].startTime <= syncedLyrics[k + 1].startTime
            /\ syncedLyrics[k].endTime = syncedLyrics[k + 1].startTime
       /\ Len(syncedLyrics) > 0 => syncedLyrics[Len(syncedLyrics)].endTime = Infinity

C6_Witness ==
  /\ ParseInstalled /\ TimedPayload
  /\ Untagged(data.syncedLyrics) = <<>>
  /\ NonDecreasing(Tagged(data.syncedLyrics))
  /\ Len(Written(data.syncedLyrics)) < Len(data.syncedLyrics)
  /\ Len(syncedLyrics) >= 2

\* C7: N written lines, all tagged with strictly increasing offsets, parse to exactly
\* N lines; with exactly one of the N untagged, to exactly the other N - 1, in order.
C7_LineCount ==
  (/\ ParseInstalled /\ TimedPayload
   /\ Len(Untagged(data.syncedLyrics)) <= 1
   /\ Increasing(Tagged(data.syncedLyrics)))
    => /\ Len(syncedLyrics) =
            Len(Written(data.syncedLyrics)) - Len(Untagged(data.syncedLyrics))
       /\ \A k \in 1..Len(syncedLyrics) :
            k <= Len(Tagged(data.syncedLyrics))
              /\ syncedLyrics[k].startTime = StampOf(Tagged(data.syncedLyrics)[k])

C7_Witness ==
  /\ ParseInstalled /\ TimedPayload
  /\ Len(Untagged(data.syncedLyrics)) = 1
  /\ Increasing(Tagged(data.syncedLyrics))
  /\ Written(data.syncedLyrics)[1] \in TaggedLines
  /\ Written(data.syncedLyrics)[2] \notin TaggedLines
  /\ Len(syncedLyrics) = 2

\* the active line once the resolver has run on currentTime = t
ResolvesTo(t, index) == currentTime = t => currentLineIndex = index

\* C8 as stated: for every line i of every installed sequence, a currentTime equal to
\* line i's startTime resolves to line i, and one equal to line i's endTime resolves
\* to line i + 1, never to line i.
C8_HalfOpenAnySequence ==
  lvInst # 0 =>
    \A k \in 1..Len(syncedLyrics) :
      /\ ResolvesTo(syncedLyrics[k].startTime, k - 1)
      /\ k < Len(syncedLyrics) => ResolvesTo(syncedLyrics[k].endTime, k)

\* C8, amended: the same for a sequence parsed from a line-timed payload whose written
\* lines are all tagged with strictly increasing offsets, or from an untimed payload,
\* and for the endTime of a line that has a next line.
C8_HalfOpen ==
  (/\ ParseInstalled
   /\ \/ UntimedPayload
      \/ /\ TimedPayload
         /\ Untagged(data.syncedLyrics) = <<>>
         /\ Increasing(Tagged(data.syncedLyrics)))
    => \A k \in 1..Len(syncedLyrics) :
         /\ ResolvesTo(syncedLyrics[k].startTime, k - 1)
         /\ k < Len(syncedLyrics) =>
              /\ ResolvesTo(syncedLyrics[k].endTime, k)
              /\ currentTime = syncedLyrics[k].endTime => currentLineIndex # k - 1

C8_Witness ==
  /\ ParseInstalled /\ TimedPayload
  /\ Untagged(data.syncedLyrics) = <<>>
  /\ Increasing(Tagged(data.syncedLyrics))
  /\ Len(syncedLyrics) >= 2
  /\ lastOp.op = "timeUpdate"
  /\ currentTime = syncedLyrics[1].endTime
  /\ currentLineIndex = 1

(***************************************************************************)
(* Claims on track changes and seeks, under SpecApp.                       *)
(***************************************************************************)
\* C2: the result of a parse started for an earlier selection never becomes the
\* line sequence displayed for the selected track: the displayed sequence is empty
\* or the parse of the selected track's record.
C2_StaleParseDiscarded ==
  lvInst # 0 =>
    \/ syncedLyrics = <<>>
    \/ syncedLyrics = processLyrics(lyricsDb[selectedSong])

\* the previous track's parse has just completed while the new track's lines are shown
C2_Witness ==
  /\ lastOp.op = "parseDone"
  /\ lvInst # 0
  /\ lastOp.inst # lvInst
  /\ lastOp.song # selectedSong
  /\ syncedLyrics # <<>>

\* effect a comes before effect b wherever both happen
Before(effects, a, b) ==
  \A i, j \in 1..Len(effects) : (effects[i] = a /\ effects[j] = b) => i < j

\* C4: every handleSeek first sets the local currentTime, then issues the seek
\* command to the player, then re-anchors the tracker baseline.
C4_SeekEffectOrder ==
  lastOp.op = "handleSeek" =>
    /\ Before(lastOp.effects, "setCurrentTime", "seekTo")
    /\ Before(lastOp.effects, "seekTo", "startTimeTracking")

\* C5: when handleSongSelect changes the selected track, currentTime becomes 0 and
\* the active line index -1, and a line is active afterwards only in the sequence of
\* the selected track.
C5_ResetOnTrackChange ==
  /\ (lastOp.op = "handleSongSelect" /\ lastOp.previous # lastOp.song)
       => (currentTime = 0 /\ currentLineIndex = -1)
  /\ (variant = "app" /\ lvInst # 0 /\ currentLineIndex # -1)
       => /\ syncedLyrics = processLyrics(lyricsDb[selectedSong])
          /\ currentLineIndex \in 0..(Len(syncedLyrics) - 1)

(***************************************************************************)
(* Claims on the estimating tracker, under SpecEst.                        *)
(***************************************************************************)
\* C3: in the estimating variant handleSeek(t) leaves currentTime at t, and every
\* value written by the interval that the seek restarted is at least t.
C3_SeekReanchorsEstimate ==
  /\ lastOp.op = "handleSeek" => currentTime = lastOp.time
  /\ (lastOp.op = "tick" /\ lastOp.seek # -1) => lastOp.time >= lastOp.seek

(***************************************************************************)
(* Claims on the tracking interval, under SpecTracking.                    *)
(***************************************************************************)
\* C9: where the player signals its state, a polling interval is live only while
\* the state signalled last is playing (not after ready, not while paused).
C9_PollsOnlyWhilePlaying ==
  (variant \in {"poll", "app"} /\ intervals # {}) => playerState = "playing"

\* the handler that ran last ended its tracking calls with this one
LastCall(name) == "call" \in DOMAIN lastOp /\ lastOp.call = name

\* C10: whatever startTimeTracking and stopTimeTracking calls have been made, at
\* most one tracking interval is live, and none is live after a stopTimeTracking.
C10_AtMostOneInterval ==
  /\ Cardinality(intervals) <= 1
  /\ LastCall("stopTimeTracking") => intervals = {}

\* startTimeTracking has just been called while an interval was live
C10_Witness ==
  /\ LastCall("startTimeTracking")
  /\ lastOp.live
  /\ Cardinality(intervals) = 1

(***************************************************************************)
(* Claims on teardown and monotonic estimation, under SpecEst and          *)
(* SpecEstPlayback.                                                        *)
(***************************************************************************)
\* C11: once the tracker is torn down (the lyrics tab's effect cleanup has run and
\* no tab has set it up again), no timer made before the teardown starts a
\* tracking interval: none is live while the lyrics tab is closed.
C11_NoTrackingAfterTeardown ==
  (variant = "est" /\ activeTab = "search") => intervals = {}

\* C12: in the estimating variant, while nothing seeks and the track stays the
\* same, the reported currentTime never goes down.
C12_EstimateNeverDecreases == [][currentTime' >= currentTime]_vars

(***************************************************************************)
(* Claims on seeking without a control channel, under SpecFallback.        *)
(***************************************************************************)
\* C13: a handleSeek(t) that could not issue the seek command (no player, no
\* registered seek function) still leaves currentTime at t, and the line the
\* resolver shows contains t.
C13_SeekWithoutChannel ==
  (lastOp.op = "handleSeek" /\ lastOp.effects = <<>>) =>
    /\ currentTime = lastOp.time
    /\ currentLineIndex # -1
    /\ InInterval(syncedLyrics[currentLineIndex + 1], lastOp.time)

(***************************************************************************)
(* Further claims on LyricsView, under SpecLyricsView.                     *)
(***************************************************************************)
\* C14: a run of the resolver effect scrolls a line into view exactly when it
\* changes the active line index, and then to the new active line; an update that
\* resolves to the index already held neither scrolls nor writes.
C14_ScrollOnlyOnChange ==
  [][lastOp'.op \in {"timeUpdate", "parseDone"} =>
       /\ (lastOp'.scroll # -1) <=> (currentLineIndex' # currentLineIndex)
       /\ lastOp'.scroll # -1 => lastOp'.scroll = currentLineIndex']_vars

\* a time update has resolved to the line that was active already
C14_Witness ==
  /\ lastOp.op = "timeUpdate"
  /\ lastOp.scroll = -1
  /\ currentLineIndex # -1
  /\ InInterval(syncedLyrics[currentLineIndex + 1], lastOp.time)

\* C15: the displayed line sequence is empty or the complete parse result of one
\* record at every moment, also while a parse is between two of its awaits.
C15_AtomicReplace ==
  \/ syncedLyrics = <<>>
  \/ \E s \in DOMAIN lyricsDb : syncedLyrics = processLyrics(lyricsDb[s])

\* a parse of the mounted instance holds some but not all of its lines
C15_Witness ==
  \E p \in parses :
    /\ p.inst = lvInst
    /\ p.parsed > 0
    /\ p.parsed < Len(processLyrics(p.data))

(***************************************************************************)
(* The converter as a whole (lib/pinyin.ts): the try block is              *)
(* convertToPinyin above; the pinyin library may throw inside it.          *)
(***************************************************************************)
MaxText == 3

Chars == {"U4F60", "U597D", "a", " "}

Texts == {<<>>} \cup SeqsUpTo(Chars, MaxText)

TryConvert_rethrow(text, fails) ==
  IF fails THEN [completion |-> "throw", value |-> <<>>]
  ELSE [completion |-> "return", value |-> convertToPinyin(text)]

\* how a call completes: the catch block logs and returns the text
TryConvert(text, fails) ==
  IF fails THEN [completion |-> "return", value |-> text]
  ELSE [completion |-> "return", value |-> convertToPinyin(text)]

ConvertCall(text, fails) ==
  /\ variant = "convert"
  /\ lastOp' = [op |-> "convertToPinyin", text |-> text, fails |-> fails,
                result |-> TryConvert(text, fails)]
  /\ UNCHANGED <<variant, inputVars, cacheVars, players, lyricsDb, resultsVars, lyricsViewVars, playerVars, timerVars,
                 playerState, listeners>>

InitConvert ==
  /\ variant = "convert"
  /\ currentState = "results" /\ videoData = NoVideo /\ inputView = NoInputState
  /\ lookups = {} /\ lookupLog = <<>>
  /\ searchCache = <<>> /\ lyricsCache = <<>> /\ putLog = <<>>
  /\ players = <<>>
  /\ lyricsDb = <<>>
  /\ selectedSong = 0 /\ activeTab = "search" /\ currentTime = 0 /\ seekToRef = "null"
  /\ mounts = 0 /\ lvInst = 0 /\ query = "loading" /\ data = NoData
  /\ syncedLyrics = <<>> /\ currentLineIndex = -1 /\ parses = {}
  /\ ytApi = "none" /\ apiCallback = 0 /\ playerRef = 0 /\ playerReady = FALSE
  /\ intervalRef = 0 /\ intervals = {} /\ timeouts = {} /\ nextTimer = 1 /\ now = 0
  /\ playerState = "none" /\ listeners = {}
  /\ lastOp = [op |-> "init"]

NextConvert == \E text \in Texts, fails \in BOOLEAN : ConvertCall(text, fails)

SpecConvert == InitConvert /\ [][NextConvert]_vars

\* C16: a call of convertToPinyin always completes by returning, and when the
\* library fails it returns the text it was given.
C16_NeverPropagates ==
  lastOp.op = "convertToPinyin" =>
    /\ lastOp.result.completion = "return"
    /\ lastOp.fails => lastOp.result.value = lastOp.text

\* the library has failed on a text with Han characters
C16_Witness ==
  /\ lastOp.op = "convertToPinyin"
  /\ lastOp.fails
  /\ HasChinese(lastOp.text)
  /\ lastOp.result.value = lastOp.text

(***************************************************************************)
(* The parser's output against the payload it was given, under             *)
(* SpecLyricsView.  The expected texts are written from the payload lines. *)
(***************************************************************************)
WordsOf(line) ==
  CASE line = Line0100 -> <<"U4F60", "U597D">>
    [] line = Line0350 -> <<"l", "a">>
    [] line = Line6200 -> <<"U4F60">>

\* the payload lines without a Han character
LatinLines == {Line0350, <<"l", "a">>, <<"U3042">>}

\* C17: the parsed lines are the accepted input lines in input order, one for one
\* (tagged lines of a timed payload, non-blank lines of an untimed one), repeated
\* lines included; a line without a Han character is kept, with an empty annotation.
C17_OrderAndRetention ==
  ParseInstalled =>
    /\ TimedPayload =>
         LET accepted == Tagged(data.syncedLyrics)
         IN /\ Len(syncedLyrics) = Len(accepted)
            /\ \A k \in 1..Len(accepted) :
                 /\ syncedLyrics[k].chinese = WordsOf(accepted[k])
                 /\ syncedLyrics[k].startTime = StampOf(accepted[k])
                 /\ accepted[k] \in LatinLines => syncedLyrics[k].pinyin = <<>>
    /\ UntimedPayload =>
         LET accepted == Written(data.plainLyrics)
         IN /\ Len(syncedLyrics) = Len(accepted)
            /\ \A k \in 1..Len(accepted) :
                 /\ syncedLyrics[k].chinese = accepted[k]
                 /\ accepted[k] \in LatinLines => syncedLyrics[k].pinyin = <<>>

\* a timed payload with a repeated line after a line without Han characters
C17_Witness ==
  /\ ParseInstalled /\ TimedPayload
  /\ data.syncedLyrics = <<Line0100, Line0350, Line0100>>
  /\ Len(syncedLyrics) = 3
  /\ syncedLyrics[2].pinyin = <<>>

\* an untimed payload without Han characters in its first and last line
C17_WitnessUntimed ==
  /\ ParseInstalled /\ UntimedPayload
  /\ Len(syncedLyrics) = 3
  /\ syncedLyrics[1].pinyin = <<>> /\ syncedLyrics[3].pinyin = <<>>

\* C18: an untimed payload with N non-blank lines parses to N lines, and line i
\* (from 0) spans exactly [3i, 3(i + 1)) seconds.
C18_UntimedSpans ==
  (ParseInstalled /\ UntimedPayload) =>
    /\ Len(syncedLyrics) = Len(Written(data.plainLyrics))
    /\ \A k \in 1..Len(syncedLyrics) :
         /\ syncedLyrics[k].startTime = 3 * (k - 1) * 100
         /\ syncedLyrics[k].endTime = 3 * k * 100

\* the untimed payload's three written lines are installed
C18_Witness ==
  /\ ParseInstalled /\ UntimedPayload
  /\ Len(Written(data.plainLyrics)) = 3
  /\ syncedLyrics[3].endTime = 900

(***************************************************************************)
(* Failing ticks, under SpecTracking.                                      *)
(***************************************************************************)
\* C19: a tick whose getCurrentTime throws, or that finds no player, leaves
\* currentTime as it was, lets no error out of the callback, and leaves the
\* interval that ran it live.
C19_FailedTickIsContained ==
  "failed" \in DOMAIN lastOp =>
    /\ currentTime = lastOp.before
    /\ lastOp.error # "uncaught"
    /\ \E i \in intervals : i.id = lastOp.interval

(***************************************************************************)
(* Several YouTubePlayer instances and the global they share               *)
(* (YouTubePlayer.tsx:74-115).  Instance n's mount effect keeps the global *)
(* it found in previousCallback and registers a wrapper, named n here; an  *)
(* initial callback that other code registered is named -1.                *)
(***************************************************************************)
\* the instances whose initializePlayer a call of callback c runs: the wrapper
\* calls the callback it replaced, then its own initializePlayer
RECURSIVE Chain(_)
Chain(c) == IF c <= 0 THEN {} ELSE Chain(players[c].previousCallback) \cup {c}

MountPlayer ==
  /\ variant = "players"
  /\ mounts < MaxMounts
  /\ mounts' = mounts + 1
  /\ ytApi' = IF ytApi = "none" THEN "loading" ELSE ytApi
  /\ players' = Append(players, [previousCallback |-> apiCallback, mounted |-> TRUE,
                                 player |-> ytApi = "ready"])
  /\ apiCallback' = mounts + 1
  /\ lastOp' = [op |-> "mount", inst |-> mounts + 1]
  /\ UNCHANGED <<variant, inputVars, cacheVars, lyricsDb, resultsVars, lvInst, query, data, syncedLyrics,
                 currentLineIndex, parses, playerRef, playerReady, timerVars, playerState,
                 listeners>>

\* the cleanup of instance n's mount effect
UnmountPlayer(n) ==
  /\ variant = "players"
  /\ n \in 1..Len(players) /\ players[n].mounted
  /\ apiCallback' = players[n].previousCallback
  /\ players' = [players EXCEPT ![n].mounted = FALSE, ![n].player = FALSE]
  /\ lastOp' = [op |-> "unmount", inst |-> n]
  /\ UNCHANGED <<variant, inputVars, cacheVars, lyricsDb, resultsVars, lyricsViewVars, ytApi, playerRef, playerReady,
                 timerVars, playerState, listeners>>

\* the iframe_api script has loaded and calls window.onYouTubeIframeAPIReady;
\* initializePlayer returns at once in an instance without a container
ApiLoaded_players ==
  /\ variant = "players"
  /\ ytApi = "loading"
  /\ ytApi' = "ready"
  /\ players' = [n \in 1..Len(players) |->
                   IF n \in Chain(apiCallback) /\ players[n].mounted
                   THEN [players[n] EXCEPT !.player = TRUE]
                   ELSE players[n]]
  /\ lastOp' = [op |-> "apiLoaded", ran |-> Chain(apiCallback)]
  /\ UNCHANGED <<variant, inputVars, cacheVars, lyricsDb, resultsVars, lyricsViewVars, apiCallback, playerRef,
                 playerReady, timerVars, playerState, listeners>>

InitPlayers ==
  /\ variant = "players"
  /\ currentState = "results" /\ videoData = NoVideo /\ inputView = NoInputState
  /\ lookups = {} /\ lookupLog = <<>>
  /\ searchCache = <<>> /\ lyricsCache = <<>> /\ putLog = <<>>
  /\ players = <<>>
  /\ lyricsDb = <<>>
  /\ selectedSong = 0 /\ activeTab = "lyrics" /\ currentTime = 0 /\ seekToRef = "null"
  /\ mounts = 0 /\ lvInst = 0 /\ query = "loading" /\ data = NoData
  /\ syncedLyrics = <<>> /\ currentLineIndex = -1 /\ parses = {}
  /\ ytApi \in {"none", "ready"} /\ apiCallback \in {0, -1}
  /\ playerRef = 0 /\ playerReady = FALSE
  /\ intervalRef = 0 /\ intervals = {} /\ timeouts = {} /\ nextTimer = 1 /\ now = 0
  /\ playerState = "none" /\ listeners = {}
  /\ lastOp = [op |-> "init"]

NextPlayers ==
  \/ MountPlayer
  \/ \E n \in 1..MaxMounts : UnmountPlayer(n)
  \/ ApiLoaded_players

SpecPlayers == InitPlayers /\ [][NextPlayers]_vars

\* C20: once every instance that was mounted is unmounted again, the global
\* callback is the one that was there before the first mount.
C20_GlobalRestored ==
  (mounts > 0 /\ \A n \in 1..Len(players) : ~players[n].mounted)
    => apiCallback = players[1].previousCallback

(***************************************************************************)
(* MemStorage's two caches (server/storage.ts:54-99).  Time is Date.now()  *)
(* in milliseconds.                                                        *)
(***************************************************************************)
CACHE_EXPIRATION == 3600000

MaxPuts == 2

\* the values Date.now() takes, around one expiration window
ClockTimes == {0, 1, 3599999, 3600000, 3600001}

toLowerCase(c) == IF c = "L" THEN "l" ELSE c

\* query.toLowerCase().trim()
normalizedQuery(q) == Trim([k \in 1..Len(q) |-> toLowerCase(q[k])])

Queries == {<<"l", "a">>, <<"L", "a", " ">>, <<"a">>}

\* SongResult[] values, by song id
ResultLists == {<<>>, <<1>>}

SongIds == {1, 2}

CachedLyricsValues ==
  {NoData, [syncedLyrics |-> Null, plainLyrics |-> PlainPayload, instrumental |-> FALSE]}

Absent == [found |-> FALSE]

Found(value) == [found |-> TRUE, value |-> value]

Fresh_inclusive(timestamp) == now - timestamp <= CACHE_EXPIRATION

\* Date.now() - cached.timestamp < this.CACHE_EXPIRATION
Fresh(timestamp) == now - timestamp < CACHE_EXPIRATION

\* the map without key
Delete(map, key) == [k \in DOMAIN map \ {key} |-> map[k]]

\* the map with key set to entry
Set(map, key, entry) == [k \in DOMAIN map \cup {key} |-> IF k = key THEN entry ELSE map[k]]

getSearchResults(q) ==
  /\ variant = "storage"
  /\ LET key == normalizedQuery(q)
     IN IF key \in DOMAIN searchCache
        THEN IF Fresh(searchCache[key].timestamp)
             THEN /\ lastOp' = [op |-> "getSearchResults", key |-> q,
                                result |-> Found(searchCache[key].results)]
                  /\ UNCHANGED searchCache
             ELSE /\ lastOp' = [op |-> "getSearchResults", key |-> q, result |-> Absent]
                  /\ searchCache' = Delete(searchCache, key)
        ELSE /\ lastOp' = [op |-> "getSearchResults", key |-> q, result |-> Absent]
             /\ UNCHANGED searchCache
  /\ UNCHANGED <<variant, inputVars, lyricsCache, putLog, players, lyricsDb, resultsVars, lyricsViewVars,
                 playerVars, timerVars, playerState, listeners>>

cacheSearchResults(q, results) ==
  /\ variant = "storage"
  /\ Len(putLog) < MaxPuts
  /\ searchCache' = Set(searchCache, normalizedQuery(q),
                        [results |-> results, timestamp |-> now])
  /\ putLog' = Append(putLog, [cache |-> "search", key |-> q, value |-> results,
                               at |-> now])
  /\ lastOp' = [op |-> "cacheSearchResults", key |-> q]
  /\ UNCHANGED <<variant, inputVars, lyricsCache, players, lyricsDb, resultsVars, lyricsViewVars,
                 playerVars, timerVars, playerState, listeners>>

getLyrics(songId) ==
  /\ variant = "storage"
  /\ IF songId \in DOMAIN lyricsCache
     THEN IF Fresh(lyricsCache[songId].timestamp)
          THEN /\ lastOp' = [op |-> "getLyrics", key |-> songId,
                             result |-> Found(lyricsCache[songId].lyrics)]
               /\ UNCHANGED lyricsCache
          ELSE /\ lastOp' = [op |-> "getLyrics", key |-> songId, result |-> Absent]
               /\ lyricsCache' = Delete(lyricsCache, songId)
     ELSE /\ lastOp' = [op |-> "getLyrics", key |-> songId, result |-> Absent]
          /\ UNCHANGED lyricsCache
  /\ UNCHANGED <<variant, inputVars, searchCache, putLog, players, lyricsDb, resultsVars, lyricsViewVars,
                 playerVars, timerVars, playerState, listeners>>

cacheLyrics(songId, lyrics) ==
  /\ variant = "storage"
  /\ Len(putLog) < MaxPuts
  /\ lyricsCache' = Set(lyricsCache, songId, [lyrics |-> lyrics, timestamp |-> now])
  /\ putLog' = Append(putLog, [cache |-> "lyrics", key |-> songId, value |-> lyrics,
                               at |-> now])
  /\ lastOp' = [op |-> "cacheLyrics", key |-> songId]
  /\ UNCHANGED <<variant, inputVars, searchCache, players, lyricsDb, resultsVars, lyricsViewVars,
                 playerVars, timerVars, playerState, listeners>>

\* time passes on the server
StorageClock(t) ==
  /\ variant = "storage"
  /\ t > now
  /\ now' = t
  /\ lastOp' = [op |-> "clock"]
  /\ UNCHANGED <<variant, inputVars, cacheVars, players, lyricsDb, resultsVars, lyricsViewVars,
                 playerVars, intervalRef, intervals, timeouts, nextTimer, playerState,
                 listeners>>

InitStorage ==
  /\ variant = "storage"
  /\ currentState = "results" /\ videoData = NoVideo /\ inputView = NoInputState
  /\ lookups = {} /\ lookupLog = <<>>
  /\ searchCache = <<>> /\ lyricsCache = <<>> /\ putLog = <<>>
  /\ players = <<>>
  /\ lyricsDb = <<>>
  /\ selectedSong = 0 /\ activeTab = "search" /\ currentTime = 0 /\ seekToRef = "null"
  /\ mounts = 0 /\ lvInst = 0 /\ query = "loading" /\ data = NoData
  /\ syncedLyrics = <<>> /\ currentLineIndex = -1 /\ parses = {}
  /\ ytApi = "none" /\ apiCallback = 0 /\ playerRef = 0 /\ playerReady = FALSE
  /\ intervalRef = 0 /\ intervals = {} /\ timeouts = {} /\ nextTimer = 1 /\ now = 0
  /\ playerState = "none" /\ listeners = {}
  /\ lastOp = [op |-> "init"]

NextStorage ==
  \/ \E q \in Queries : getSearchResults(q)
  \/ \E q \in Queries, results \in ResultLists : cacheSearchResults(q, results)
  \/ \E songId \in SongIds : getLyrics(songId)
  \/ \E songId \in SongIds, lyrics \in CachedLyricsValues : cacheLyrics(songId, lyrics)
  \/ \E t \in ClockTimes : StorageClock(t)

SpecStorage == InitStorage /\ [][NextStorage]_vars

(***************************************************************************)
(* Claims on the caches, under SpecStorage.  The expected answer of a get  *)
(* is computed from the history of puts, not from the maps.                *)
(***************************************************************************)
GetOps == {"getSearchResults", "getLyrics"}

CacheOf(op) == IF op = "getSearchResults" THEN "search" ELSE "lyrics"

\* the puts into the cache of get operation op whose key the relation Same
\* identifies with key
PutsFor(op, key, Same(_, _)) ==
  {i \in 1..Len(putLog) : putLog[i].cache = CacheOf(op) /\ Same(putLog[i].key, key)}

Latest(S) == CHOOSE i \in S : \A j \in S : j <= i

\* what a get must answer when Same tells which puts are puts for its key: the
\* value of the latest put if less than an hour has passed since, else absent
ExpectedAnswer(op, key, Same(_, _)) ==
  LET puts == PutsFor(op, key, Same)
  IN IF puts # {} /\ now - putLog[Latest(puts)].at < 60 * 60 * 1000
     THEN Found(putLog[Latest(puts)].value)
     ELSE Absent

SameKey(a, b) == a = b

\* search keys are the same when they are equal after lower-casing and trimming
SameNormalizedKey(a, b) ==
  IF lastOp.op = "getSearchResults" THEN normalizedQuery(a) = normalizedQuery(b) ELSE a = b

\* the key under which the last get looked into its map
LookedUp ==
  IF lastOp.op = "getSearchResults" THEN normalizedQuery(lastOp.key) ELSE lastOp.key

MapOf(op) == IF op = "getSearchResults" THEN searchCache ELSE lyricsCache

\* C21 as stated: a get answers with the value put last for that key iff less than
\* an hour has passed since that put, else with absent; an absent answer leaves no
\* entry behind.
C21_GetWithinHour_sameKey ==
  lastOp.op \in GetOps =>
    /\ lastOp.result = ExpectedAnswer(lastOp.op, lastOp.key, SameKey)
    /\ ~lastOp.result.found => LookedUp \notin DOMAIN MapOf(lastOp.op)

\* C21: a get answers with the value put last for that key iff less than an hour
\* has passed since that put, else with absent, where the keys of the search cache
\* are compared after lower-casing and trimming; an absent answer leaves no entry
\* behind, so later reads stay absent until the next put.
C21_GetWithinHour ==
  lastOp.op \in GetOps =>
    /\ lastOp.result = ExpectedAnswer(lastOp.op, lastOp.key, SameNormalizedKey)
    /\ ~lastOp.result.found => LookedUp \notin DOMAIN MapOf(lastOp.op)

\* a get exactly one hour after the put for its key: absent
C21_Witness ==
  /\ lastOp.op \in GetOps
  /\ \E i \in PutsFor(lastOp.op, lastOp.key, SameNormalizedKey) :
       now - putLog[i].at = 60 * 60 * 1000
  /\ ~lastOp.result.found

\* a get one millisecond before the hour: the value
C21_WitnessFresh ==
  /\ lastOp.op \in GetOps
  /\ \E i \in PutsFor(lastOp.op, lastOp.key, SameNormalizedKey) :
       now - putLog[i].at = 60 * 60 * 1000 - 1
  /\ lastOp.result.found

(***************************************************************************)
(* Further claims on LyricsView, under SpecLyricsView.                     *)
(***************************************************************************)
\* the record has neither payload, as null or as the empty string
NoPayload(d) ==
  /\ d.syncedLyrics \in {Null, <<LineEmpty>>}
  /\ d.plainLyrics \in {Null, <<LineEmpty>>}

\* C22: after a failed fetch LyricsView shows the error state; after a successful
\* response with no plain lyrics, no synced lyrics and not instrumental it shows the
\* no-lyrics state.
C22_ErrorOrEmpty ==
  lvInst # 0 =>
    /\ query = "error" => Render = "error"
    /\ (query = "success" /\ NoPayload(lyricsDb[selectedSong])
          /\ ~lyricsDb[selectedSong].instrumental) => Render = "noLyrics"

\* the fetch has failed
C22_Witness == lastOp.op = "fetchLyricsFailed" /\ Render = "error"

\* the fetch has delivered a record without lyrics
C22_WitnessEmpty ==
  /\ query = "success" /\ NoPayload(data) /\ ~data.instrumental
  /\ Render = "noLyrics"

\* how many of the first i written lines of the payload are tagged
TaggedUpTo(payload, i) ==
  Cardinality({j \in 1..i : Written(payload)[j] \in TaggedLines})

\* C23: the line parsed from a tagged written line ends at the offset of the written
\* line right after it when that one is tagged, and is unbounded when that one is
\* not tagged or there is none; a tagged line further down is never used.
C23_EndFromNextRawLine ==
  (ParseInstalled /\ TimedPayload) =>
    LET written == Written(data.syncedLyrics)
    IN \A i \in 1..Len(written) :
         written[i] \in TaggedLines =>
           syncedLyrics[TaggedUpTo(data.syncedLyrics, i)].endTime =
             IF i < Len(written) /\ written[i + 1] \in TaggedLines
             THEN StampOf(written[i + 1])
             ELSE 100000000

\* a tagged line, a line without a tag, a tagged line: the first parsed line is
\* unbounded
C23_Witness ==
  /\ ParseInstalled /\ TimedPayload
  /\ data.syncedLyrics = <<Line0100, LineNoTag, Line0350>>
  /\ Len(syncedLyrics) = 2
  /\ syncedLyrics[1].endTime = 100000000

\* C24: with a non-empty syncedLyrics the sequence holds the tagged lines of it and
\* nothing of plainLyrics, also when none is tagged; plainLyrics gives the sequence
\* only when syncedLyrics is absent or empty; with neither the sequence is empty.
C24_BranchSelection ==
  ParseInstalled =>
    /\ TimedPayload =>
         /\ Len(syncedLyrics) = Len(Tagged(data.syncedLyrics))
         /\ \A k \in 1..Len(syncedLyrics) :
              /\ syncedLyrics[k].chinese = WordsOf(Tagged(data.syncedLyrics)[k])
              /\ syncedLyrics[k].startTime = StampOf(Tagged(data.syncedLyrics)[k])
    /\ UntimedPayload =>
         /\ Len(syncedLyrics) = Len(Written(data.plainLyrics))
         /\ \A k \in 1..Len(syncedLyrics) :
              syncedLyrics[k].chinese = Written(data.plainLyrics)[k]
    /\ (~TimedPayload /\ ~UntimedPayload) => syncedLyrics = <<>>

\* a timed payload without a tagged line next to an untimed payload: nothing shown
C24_Witness ==
  /\ ParseInstalled /\ TimedPayload
  /\ Tagged(data.syncedLyrics) = <<>>
  /\ data.plainLyrics = PlainPayload
  /\ syncedLyrics = <<>>

\* the record's line-timed payload has a line that is not blank
TimedNonBlank == TimedPayload /\ Written(data.syncedLyrics) # <<>>

\* C25: a click on a displayed line calls the seek callback, with that line's
\* startTime, exactly when the record has non-blank line-timed lyrics and the
\* callback was passed; a click that does not seek leaves currentTime and the
\* active line index as they were.
C25_ClickSeeks ==
  [][lastOp'.op = "lineClick" =>
       /\ lastOp'.seek = IF TimedNonBlank /\ lastOp'.onSeek
                         THEN syncedLyrics[lastOp'.line].startTime
                         ELSE -1
       /\ lastOp'.seek = -1 => UNCHANGED <<currentTime, currentLineIndex>>]_vars

\* a click on a line of an untimed record, with the callback passed: no seek
C25_Witness ==
  /\ lastOp.op = "lineClick" /\ lastOp.onSeek
  /\ UntimedPayload
  /\ lastOp.seek = -1

\* a click on a line of a timed record: a seek to its startTime
C25_WitnessSeek ==
  /\ lastOp.op = "lineClick" /\ lastOp.line = 2
  /\ lastOp.seek = 350

(***************************************************************************)
(* Line clicks in the whole page, under SpecApp.                           *)
(***************************************************************************)
\* every written line of the timed payload is tagged, offsets strictly increasing
WellFormedTimed ==
  /\ TimedPayload
  /\ Untagged(data.syncedLyrics) = <<>>
  /\ Increasing(Tagged(data.syncedLyrics))

\* C26: with a well-formed, strictly increasing timed payload, right after the
\* click on line k (handleSeek with its startTime, then the resolver effect) the
\* active line is k.
C26_ClickActivatesLine ==
  (lastOp.op = "handleSeek" /\ ParseInstalled /\ WellFormedTimed) =>
    \A k \in 1..Len(syncedLyrics) :
      syncedLyrics[k].startTime = lastOp.time => currentLineIndex = k - 1

\* the second line has been clicked
C26_Witness ==
  /\ lastOp.op = "handleSeek" /\ ParseInstalled /\ WellFormedTimed
  /\ lastOp.time = 350
  /\ currentLineIndex = 1

(***************************************************************************)
(* Disjoint intervals, under SpecLyricsView.                               *)
(***************************************************************************)
\* no offset lies in the intervals of two lines
Disjoint(lines) ==
  \A i, j \in 1..Len(lines) :
    i < j => (lines[i].endTime <= lines[j].startTime \/ lines[j].endTime <= lines[i].startTime)

\* the active line is line k whenever currentTime is line k's startTime
StartResolvesToOwnLine ==
  \A k \in 1..Len(syncedLyrics) :
    currentTime = syncedLyrics[k].startTime => currentLineIndex = k - 1

\* C27 as stated: for a timed payload whose tagged lines have strictly increasing
\* offsets, with or without untagged lines between them, the parsed intervals are
\* pairwise disjoint and a currentTime equal to line k's startTime resolves to k.
C27_DisjointWithUntagged ==
  (ParseInstalled /\ TimedPayload /\ Increasing(Tagged(data.syncedLyrics))) =>
    /\ Disjoint(syncedLyrics)
    /\ StartResolvesToOwnLine

\* C27: for a timed payload whose written lines are all tagged, with strictly
\* increasing offsets, the parsed intervals are pairwise disjoint and a currentTime
\* equal to line k's startTime resolves to k.
C27_Disjoint ==
  (ParseInstalled /\ WellFormedTimed) =>
    /\ Disjoint(syncedLyrics)
    /\ StartResolvesToOwnLine

\* three tagged lines, currentTime at the start of the second, which is active
C27_Witness ==
  /\ ParseInstalled /\ WellFormedTimed
  /\ Len(syncedLyrics) = 3
  /\ currentTime = syncedLyrics[2].startTime
  /\ currentLineIndex = 1

(***************************************************************************)
(* The active line index in the whole page, under SpecApp.                 *)
(***************************************************************************)
\* C28: in every state, through ticks, line clicks, parse completions and track
\* changes, the active line index is -1 or an index of the installed sequence.
C28_IndexInRange ==
  \/ currentLineIndex = -1
  \/ currentLineIndex \in 0..(Len(syncedLyrics) - 1)

\* after a track change, with the second track's lines installed, one is active
C28_Witness ==
  /\ mounts >= 2 /\ selectedSong = 2
  /\ Len(syncedLyrics) >= 2
  /\ currentLineIndex >= 0

(***************************************************************************)
(* The player's lifetime in the API-with-fallback variant, under           *)
(* SpecFallback.                                                           *)
(***************************************************************************)
\* C29: a tick that changes currentTime leaves the interval that ran it live and
\* the player as it was: not replaced by a new player that has signalled nothing.
C29_TickKeepsPlayer ==
  (variant = "fallback" /\ lastOp.op = "tick") =>
    /\ \E i \in intervals : i.id = lastOp.interval
    /\ playerState # "none"

(***************************************************************************)
(* The input screen (InputState.tsx:20-66) inside the Router               *)
(* (App.tsx:14-56).  A URL is named by the video it points to; "other" is  *)
(* a text that is no YouTube URL.                                          *)
(***************************************************************************)
MaxLookups == 3

YoutubeUrls == {"A", "B"}

UrlInputs == YoutubeUrls \cup {"other"}

\* how an extractYoutubeInfo call ends: with id, title and channel, with an
\* empty title, or by throwing
LookupOutcomes == {"ok", "noTitle", "throws"}

\* the state of a newly mounted InputState
FreshInputState(inst) == [NoInputState EXCEPT !.inst = inst, !.mounted = TRUE]

\* what extractYoutubeInfo resolves to for url
VideoOf(url) ==
  [videoId |-> url, title |-> url, channel |-> "channel", searchQuery |-> url]

Entered == SelectSeq(lookupLog, LAMBDA e : e.event = "enter")

Returned == SelectSeq(lookupLog, LAMBDA e : e.event = "return")

\* the input's onChange: a YouTube URL starts a lookup, another text sets the error
handleVideoUrlInput(url) ==
  /\ variant = "input"
  /\ currentState = "input" /\ inputView.mounted
  /\ IF url \in YoutubeUrls
     THEN /\ Len(Entered) < MaxLookups
          /\ inputView' = [inputView EXCEPT !.youtubeUrl = url, !.isLoading = TRUE,
                                            !.error = "null"]
          /\ lookups' = lookups \cup
               {[n |-> Len(Entered) + 1, url |-> url, inst |-> inputView.inst]}
          /\ lookupLog' = Append(lookupLog, [event |-> "enter", n |-> Len(Entered) + 1,
                                             url |-> url, outcome |-> "none"])
     ELSE /\ inputView' = [inputView EXCEPT !.youtubeUrl = url, !.error = "invalid"]
          /\ UNCHANGED <<lookups, lookupLog>>
  /\ lastOp' = [op |-> "handleVideoUrlInput", url |-> url]
  /\ UNCHANGED <<variant, currentState, videoData, cacheVars, players, lyricsDb, resultsVars,
                 lyricsViewVars, playerVars, timerVars, playerState, listeners>>

\* Router.handleVideoSubmit: setVideoData(data); setCurrentState("results")
handleVideoSubmit(d) ==
  /\ videoData' = d
  /\ currentState' = "results"

\* the await of handleVideoUrlInput call l ends.  The set-state calls of an
\* InputState that is unmounted are dropped; onVideoSubmit is the Router's
\* function and is called either way
lookupReturns(l, outcome) ==
  /\ variant = "input"
  /\ l \in lookups
  /\ lookups' = lookups \ {l}
  /\ lookupLog' = Append(lookupLog, [event |-> "return", n |-> l.n, url |-> l.url,
                                     outcome |-> outcome])
  /\ LET live == inputView.mounted /\ inputView.inst = l.inst
     IN CASE outcome = "ok" ->
               /\ handleVideoSubmit(VideoOf(l.url))
               /\ inputView' = [NoInputState EXCEPT !.inst = inputView.inst]
          [] outcome = "noTitle" ->
               /\ inputView' = IF live
                               THEN [inputView EXCEPT !.songTitle = "", !.showSongInfo = TRUE,
                                                      !.isLoading = FALSE]
                               ELSE inputView
               /\ UNCHANGED <<videoData, currentState>>
          [] outcome = "throws" ->
               /\ inputView' = IF live
                               THEN [inputView EXCEPT !.isLoading = FALSE, !.error = "extract"]
                               ELSE inputView
               /\ UNCHANGED <<videoData, currentState>>
  /\ lastOp' = [op |-> "lookupReturns", n |-> l.n, url |-> l.url, outcome |-> outcome]
  /\ UNCHANGED <<variant, cacheVars, players, lyricsDb, resultsVars, lyricsViewVars,
                 playerVars, timerVars, playerState, listeners>>

\* Router.returnToInput: the results screen is replaced by a new InputState
returnToInput ==
  /\ variant = "input"
  /\ currentState = "results"
  /\ inputView.inst < MaxMounts
  /\ currentState' = "input"
  /\ inputView' = FreshInputState(inputView.inst + 1)
  /\ lastOp' = [op |-> "returnToInput"]
  /\ UNCHANGED <<variant, videoData, lookups, lookupLog, cacheVars, players, lyricsDb,
                 resultsVars, lyricsViewVars, playerVars, timerVars, playerState, listeners>>

InitInput ==
  /\ variant = "input"
  /\ currentState = "input" /\ videoData = NoVideo /\ inputView = FreshInputState(1)
  /\ lookups = {} /\ lookupLog = <<>>
  /\ searchCache = <<>> /\ lyricsCache = <<>> /\ putLog = <<>>
  /\ players = <<>>
  /\ lyricsDb = <<>>
  /\ selectedSong = 0 /\ activeTab = "search" /\ currentTime = 0 /\ seekToRef = "null"
  /\ mounts = 0 /\ lvInst = 0 /\ query = "loading" /\ data = NoData
  /\ syncedLyrics = <<>> /\ currentLineIndex = -1 /\ parses = {}
  /\ ytApi = "none" /\ apiCallback = 0 /\ playerRef = 0 /\ playerReady = FALSE
  /\ intervalRef = 0 /\ intervals = {} /\ timeouts = {} /\ nextTimer = 1 /\ now = 0
  /\ playerState = "none" /\ listeners = {}
  /\ lastOp = [op |-> "init"]

NextInput ==
  \/ \E url \in UrlInputs : handleVideoUrlInput(url)
  \/ \E l \in lookups, outcome \in LookupOutcomes : lookupReturns(l, outcome)
  \/ returnToInput

SpecInput == InitInput /\ [][NextInput]_vars

\* C30: when URL B was entered after URL A and before A's lookup returned, and
\* both lookups have returned with video data, the Router holds B's data, whichever
\* lookup returned first.
C30_LastUrlWins ==
  (/\ Len(Entered) = 2 /\ Len(Returned) = 2
   /\ Len(lookupLog) = 4
   /\ lookupLog[1].event = "enter" /\ lookupLog[2].event = "enter"
   /\ lookupLog[1].url # lookupLog[2].url
   /\ \A k \in 1..2 : Returned[k].outcome = "ok")
    => videoData.videoId = lookupLog[2].url
====
